---- MODULE Spec2Model ----
(***************************************************************************)
(* Wumpus-World reasoning core: the CNF encoder (src/src/encoder.rs) and   *)
(* the knowledge base built on it (src/src/kb.rs).                         *)
(*                                                                         *)
(* The encoder is a record [map, clauses, counter, snapshot]; every method *)
(* of EncoderSAT is an operator from encoder records to encoder records,   *)
(* and every public call is an action on the variable kb.                  *)
(***************************************************************************)
EXTENDS Integers, Sequences, FiniteSets, TLC

VARIABLES
    kb,        \* the EncoderSAT<Var> value: map, clauses, counter, snapshot
    status,    \* "running"; "panicked" once an assert!/expect or another panic has fired;
               \* "exit(0)" or "exit(1)" once the process has exited; "overflowed" once
               \* next_action has entered itself without end
    pre,       \* history: <<encoder>> as it was when the pending snapshot was taken
    raw_ids,   \* history: ids handed out by create_raw_variable and not discarded since
    stale,     \* history: ids create_raw_variable returned that a rewind has discarded since
               \* and that have not been allocated again
    misused,   \* history: add_raw_clause has been given an id outside 1..counter
    world,     \* the call of init_kb in progress or finished: its size, the number of
               \* clauses it has stored so far, the clause of its ClauseBuilder and the
               \* perception told since; None when init_kb has not been called
    last,      \* history: the call that produced this state and what it returned
    dungeon,   \* the World value: dungeon, gold_in_dungeon, hero_pos; None before World::new
    hero,      \* the Hero value without its kb: obj, t, cache, plan, size_map, and the
               \* calls of the knowledge base in its last turn; None before Hero::new
    overflow_checks  \* <<TRUE>> when the build panics on arithmetic overflow, <<FALSE>>
                     \* when it wraps; None before the run starts

vars == <<kb, status, pre, raw_ids, stale, misused, world, last, dungeon, hero,
          overflow_checks>>

(***************************************************************************)
(* Bounds of the model.                                                    *)
(***************************************************************************)
\* domain variables (the type parameter T of EncoderSAT<T>)
Vars == {"A", "B"}
\* largest size (clauses + literals) of a formula given to ask
MaxQuerySize == 4
\* largest number of stored clauses for which add / tell / add_raw_clause is still called
MaxClauses == 2
\* largest number of live raw ids for which create_raw_variable is still called from outside ask
MaxRaw == 1
\* largest number of lines of a solver output given to picosat_is_sat
MaxOutputLines == 3

\* largest number of actions a hero has returned for which next_action is still called
MaxTurns == 20

(***************************************************************************)
(* Literal<T>                                                              *)
(***************************************************************************)
Pos(x) == [pol |-> "Pos", v |-> x]
Neg(x) == [pol |-> "Neg", v |-> x]

not(l) == IF l.pol = "Pos" THEN Neg(l.v) ELSE Pos(l.v)

inner(l) == l.v

\* Literal::map applied to a function: keeps the polarity, replaces the payload
literal_map(l, f) == [pol |-> l.pol, v |-> f[l.v]]

Literals == {Pos(x) : x \in Vars} \cup {Neg(x) : x \in Vars}

(***************************************************************************)
(* EncoderSAT<T>                                                           *)
(***************************************************************************)
None == <<>>
Some(x) == <<x>>

\* EncoderSAT::new(): Default::default() of every field
new == [map |-> [x \in {} |-> 0], clauses |-> <<>>, counter |-> 0, snapshot |-> None]

\* Snapshot::from that saves the number of names in place of the counter
Snapshot_from_names(E) ==
    [last_var_counter |-> Cardinality(DOMAIN E.map),
     last_len_clauses |-> Len(E.clauses),
     new_vars |-> <<>>]

\* Snapshot::from(&mut EncoderSAT)
Snapshot_from(E) ==
    [last_var_counter |-> E.counter,
     last_len_clauses |-> Len(E.clauses),
     new_vars |-> <<>>]

\* create_raw_variable that hands out the next id without advancing the counter
create_raw_variable_no_advance(E) == [enc |-> E, lit |-> Pos(E.counter + 1)]

create_raw_variable(E) ==
    [enc |-> [E EXCEPT !.counter = @ + 1], lit |-> Pos(E.counter + 1)]

add_raw_clause(E, raw_clause) == [E EXCEPT !.clauses = Append(@, raw_clause)]

\* snapshot() without its assert!
snapshot_assert_absent(E) == TRUE

\* the assert! of snapshot()
snapshot_assert(E) == E.snapshot = None

snapshot(E) == [E EXCEPT !.snapshot = Some(Snapshot_from(E))]

\* register_literal that does not record a new name in the pending snapshot
register_literal_untracked(E, literal) ==
    LET old_size == Cardinality(DOMAIN E.map)
        next_id == E.counter + 1
        t == inner(literal)
        m == IF t \in DOMAIN E.map THEN E.map ELSE (t :> next_id) @@ E.map
        grew == Cardinality(DOMAIN m) > old_size
    IN  [enc |-> IF grew THEN [E EXCEPT !.map = m, !.counter = @ + 1] ELSE E,
         lit |-> literal_map(literal, m)]

\* register_literal that advances the counter on every call, known name or not
register_literal_always_counts(E, literal) ==
    LET next_id == E.counter + 1
        t == inner(literal)
        m == IF t \in DOMAIN E.map THEN E.map ELSE (t :> next_id) @@ E.map
        snap == IF E.snapshot = None \/ t \in DOMAIN E.map
                THEN E.snapshot
                ELSE Some([E.snapshot[1] EXCEPT !.new_vars = Append(@, t)])
    IN  [enc |-> [E EXCEPT !.map = m, !.counter = @ + 1, !.snapshot = snap],
         lit |-> literal_map(literal, m)]

register_literal(E, literal) ==
    LET old_size == Cardinality(DOMAIN E.map)
        next_id == E.counter + 1
        t == inner(literal)
        m == IF t \in DOMAIN E.map THEN E.map ELSE (t :> next_id) @@ E.map
        grew == Cardinality(DOMAIN m) > old_size
        snap == IF E.snapshot = None
                THEN None
                ELSE Some([E.snapshot[1] EXCEPT !.new_vars = Append(@, t)])
    IN  [enc |-> IF grew
                 THEN [E EXCEPT !.map = m, !.counter = @ + 1, !.snapshot = snap]
                 ELSE E,
         lit |-> literal_map(literal, m)]

RECURSIVE register_clause(_, _)
register_clause(E, clause) ==
    IF clause = <<>>
    THEN [enc |-> E, clause |-> <<>>]
    ELSE LET r == register_literal(E, Head(clause))
             rest == register_clause(r.enc, Tail(clause))
         IN  [enc |-> rest.enc, clause |-> <<r.lit>> \o rest.clause]

add(E, clause) ==
    LET r == register_clause(E, clause)
    IN  [r.enc EXCEPT !.clauses = Append(@, r.clause)]

\* the expect of rewind()
rewind_expect(E) == E.snapshot # None

SeqRange(s) == {s[i] : i \in 1..Len(s)}

\* rewind that leaves the names interned since the snapshot in the map
rewind_keeps_names(E) ==
    LET snap == E.snapshot[1]
    IN  [map |-> E.map,
         clauses |-> IF snap.last_len_clauses < Len(E.clauses)
                     THEN SubSeq(E.clauses, 1, snap.last_len_clauses)
                     ELSE E.clauses,
         counter |-> snap.last_var_counter,
         snapshot |-> None]

\* rewind that does not pop the clauses stored since the snapshot
rewind_keeps_clauses(E) ==
    LET snap == E.snapshot[1]
    IN  [map |-> [x \in (DOMAIN E.map) \ SeqRange(snap.new_vars) |-> E.map[x]],
         clauses |-> E.clauses,
         counter |-> snap.last_var_counter,
         snapshot |-> None]

rewind(E) ==
    LET snap == E.snapshot[1]
    IN  [map |-> [x \in (DOMAIN E.map) \ SeqRange(snap.new_vars) |-> E.map[x]],
         clauses |-> IF snap.last_len_clauses < Len(E.clauses)
                     THEN SubSeq(E.clauses, 1, snap.last_len_clauses)
                     ELSE E.clauses,
         counter |-> snap.last_var_counter,
         snapshot |-> None]


\* the id -> name table of encode(): slot v-1 holds the name mapped to v, and
\* filter_map then drops the slots that hold no name
name_table(E) ==
    LET variables == [i \in 1..E.counter |->
                         LET names == {k \in DOMAIN E.map : E.map[k] = i}
                         IN  IF names = {} THEN None ELSE Some(CHOOSE k \in names : TRUE)]
        named == SelectSeq(variables, LAMBDA x : x # None)
    IN  [i \in 1..Len(named) |-> named[i][1]]

\* one DIMACS line: the signed ids of the clause, then 0
dimacs_line(clause) ==
    [j \in 1..Len(clause) |->
        IF clause[j].pol = "Pos" THEN clause[j].v ELSE 0 - clause[j].v] \o <<0>>

\* format!("{n}") of a usize: its decimal digits, a text being a sequence of characters
RECURSIVE decimal(_)
decimal(n) ==
    LET digit(d) == <<"0", "1", "2", "3", "4", "5", "6", "7", "8", "9">>[d + 1]
    IN  IF n < 10 THEN <<digit(n)>> ELSE decimal(n \div 10) \o <<digit(n % 10)>>

\* format_literal that leaves out the space after the id
format_literal_no_space(literal) ==
    IF literal.pol = "Pos"
    THEN decimal(literal.v)
    ELSE <<"-">> \o decimal(literal.v)

\* format!("{l} ") for Pos(l) and format!("-{l} ") for Neg(l)
format_literal(literal) ==
    IF literal.pol = "Pos"
    THEN decimal(literal.v) \o <<" ">>
    ELSE <<"-">> \o decimal(literal.v) \o <<" ">>

\* the text of one clause: its literals, then '0', then the newline
RECURSIVE format_clause(_)
format_clause(clause) ==
    IF clause = <<>>
    THEN <<"0", "\n">>
    ELSE format_literal(Head(clause)) \o format_clause(Tail(clause))

\* the text of the clauses from the lo-th to the hi-th, one after the other
RECURSIVE format_clauses(_, _, _)
format_clauses(clauses, lo, hi) ==
    IF lo > hi
    THEN <<>>
    ELSE IF lo = hi
         THEN format_clause(clauses[lo])
         ELSE format_clauses(clauses, lo, (lo + hi) \div 2)
                  \o format_clauses(clauses, ((lo + hi) \div 2) + 1, hi)

\* encode(): the DIMACS text, the header and the lines of tokens a reader of the text
\* finds in it, and the name table
encode(E) ==
    [encoding |-> <<"p", " ", "c", "n", "f", " ">> \o decimal(E.counter) \o <<" ">>
                      \o decimal(Len(E.clauses)) \o <<"\n">>
                      \o format_clauses(E.clauses, 1, Len(E.clauses)),
     header |-> <<"p", "cnf", E.counter, Len(E.clauses)>>,
     lines |-> [i \in 1..Len(E.clauses) |-> dimacs_line(E.clauses[i])],
     variables |-> name_table(E)]

(***************************************************************************)
(* The SAT oracle: the external solver and the parsing of its verdict.     *)
(***************************************************************************)
\* every literal of the text names a variable the header declares
well_formed(dimacs) ==
    \A i \in 1..Len(dimacs.lines) : \A j \in 1..(Len(dimacs.lines[i]) - 1) :
        LET l == dimacs.lines[i][j]
        IN  l # 0 /\ l <= dimacs.header[3] /\ 0 - l <= dimacs.header[3]

\* the clauses of the text, each the set of its signed ids
clause_sets(dimacs) ==
    {{dimacs.lines[i][j] : j \in 1..(Len(dimacs.lines[i]) - 1)} : i \in 1..Len(dimacs.lines)}

\* the clauses left to satisfy once every signed id of lits is made true
assign(cs, lits) == {c \ {0 - l : l \in lits} : c \in {d \in cs : d \cap lits = {}}}

\* one round of unit propagation: every unit clause is made true, and two opposite
\* unit clauses leave the empty clause
unit_round(cs) ==
    LET units == UNION {c \in cs : Cardinality(c) = 1}
    IN  IF \E l \in units : (0 - l) \in units THEN {{}} ELSE assign(cs, units)

\* the literal the search splits on: the least signed id of a longest clause
split_literal(cs) ==
    LET lengths == {Cardinality(c) : c \in cs}
        longest == CHOOSE c \in cs : \A n \in lengths : n <= Cardinality(c)
    IN  CHOOSE l \in longest : \A k \in longest : l <= k

\* the search of the solver: unit propagation, then a split on a literal
RECURSIVE dpll(_)
dpll(cs) ==
    LET ps == unit_round(unit_round(unit_round(cs)))
    IN  CASE {} \in ps -> FALSE
          [] ps = {} -> TRUE
          [] {} \notin ps /\ ps # {} /\ ps # cs -> dpll(ps)
          [] OTHER -> \/ dpll(assign(ps, {split_literal(ps)}))
                      \/ dpll(assign(ps, {0 - split_literal(ps)}))

\* some assignment of the declared variables makes every clause of the text hold
satisfiable(dimacs) == dpll(clause_sets(dimacs))

\* the verdict lines of the solver, a text being a sequence of characters
s_SATISFIABLE == <<"s", " ", "S", "A", "T", "I", "S", "F", "I", "A", "B", "L", "E">>

s_UNSATISFIABLE ==
    <<"s", " ", "U", "N", "S", "A", "T", "I", "S", "F", "I", "A", "B", "L", "E">>

\* what a correct solver may print: the verdict line of a well-formed text; a text
\* that uses an undeclared variable is outside the solver's contract
picosat(dimacs) ==
    IF well_formed(dimacs)
    THEN {(IF satisfiable(dimacs) THEN s_SATISFIABLE ELSE s_UNSATISFIABLE) \o <<"\n">>}
    ELSE {s_SATISFIABLE \o <<"\n">>, s_UNSATISFIABLE \o <<"\n">>}

\* BufRead::read_line: the text up to and including the first newline, all of it when
\* it has none
read_line(output) ==
    LET newlines == {i \in 1..Len(output) : output[i] = "\n"}
    IN  IF newlines = {}
        THEN output
        ELSE SubSeq(output, 1, CHOOSE i \in newlines : \A j \in newlines : i <= j)

\* str::trim: the text without its leading and trailing whitespace
trim(line) ==
    LET inked == {i \in 1..Len(line) : line[i] \notin {" ", "\n", "\t", "\r"}}
    IN  IF inked = {}
        THEN <<>>
        ELSE SubSeq(line, CHOOSE i \in inked : \A j \in inked : i <= j,
                          CHOOSE i \in inked : \A j \in inked : i >= j)

\* picosat_is_sat panics when read_line reads no byte
picosat_is_sat_panics(output) == Len(read_line(output)) = 0

\* picosat_is_sat that compares the first line as read, newline included
picosat_is_sat_untrimmed(output) == read_line(output) = s_SATISFIABLE

\* picosat_is_sat on an output it does not panic on
picosat_is_sat(output) == trim(read_line(output)) = s_SATISFIABLE

\* the verdicts picosat_sat() can return for this encoder
picosat_sat(E) == {picosat_is_sat(output) : output \in picosat(encode(E))}

\* parse_picosat_model(output, nvars): None for the error on an output with no byte,
\* Some(<<>>) when the first line is not the SAT verdict, else Some(result) where
\* result holds at position i + 1 the value of index i of the vector: index 0 is never
\* written, and the last literal of the 'v ' lines that names an id decides its value
parse_picosat_model(output, nvars) ==
    LET whitespace == {" ", "\n", "\t", "\r"}
        digits == <<"0", "1", "2", "3", "4", "5", "6", "7", "8", "9">>
        all_digits(t) == t # <<>> /\ \A k \in 1..Len(t) : \E d \in 1..10 : digits[d] = t[k]
        number(t) ==
            LET digit_value(c) == (CHOOSE d \in 1..10 : digits[d] = c) - 1
                RECURSIVE value_of(_)
                value_of(n) == IF n = 0 THEN 0 ELSE 10 * value_of(n - 1) + digit_value(t[n])
            IN  value_of(Len(t))
        parse(token) ==
            IF all_digits(token)
            THEN Some(number(token))
            ELSE IF token # <<>> /\ Head(token) \in {"-", "+"} /\ all_digits(Tail(token))
            THEN Some(IF Head(token) = "-" THEN 0 - number(Tail(token)) ELSE number(Tail(token)))
            ELSE None
        first == read_line(output)
        rest == SubSeq(output, Len(first) + 1, Len(output))
        ends == {i \in 1..Len(rest) : rest[i] = "\n"}
                    \cup (IF rest # <<>> /\ rest[Len(rest)] # "\n" THEN {Len(rest) + 1} ELSE {})
        line(e) ==
            LET before == {0} \cup {i \in ends : i < e}
                start == (CHOOSE i \in before : \A j \in before : j <= i) + 1
            IN  SubSeq(rest, start, e - 1)
        starts(l) == {p \in 3..Len(l) : l[p] \notin whitespace /\ (p = 3 \/ l[p - 1] \in whitespace)}
        token(l, p) ==
            LET stops == {q \in p..Len(l) : q = Len(l) \/ l[q + 1] \in whitespace}
            IN  SubSeq(l, p, CHOOSE q \in stops : \A r \in stops : q <= r)
        lits == UNION {{<<e, p, parse(token(line(e), p))[1]>> :
                           p \in {q \in starts(line(e)) : parse(token(line(e), q)) # None}} :
                       e \in {f \in ends : /\ Len(line(f)) >= 2
                                           /\ line(f)[1] = "v"
                                           /\ line(f)[2] = " "}}
        value(idx) ==
            LET hits == {h \in lits : h[3] # 0 /\ (h[3] = idx \/ 0 - h[3] = idx)}
                latest == CHOOSE h \in hits :
                              \A g \in hits : g[1] < h[1] \/ (g[1] = h[1] /\ g[2] <= h[2])
            IN  IF hits = {} THEN None ELSE Some(latest[3] > 0)
    IN  IF Len(first) = 0
        THEN None
        ELSE IF trim(first) # s_SATISFIABLE
        THEN Some(<<>>)
        ELSE Some([i \in 1..(nvars + 1) |-> IF i = 1 THEN None ELSE value(i - 1)])

\* decode_model(vars, model): enumerate().skip(1) passes over index 0 of vars, which is
\* position 1 of the sequence variables, and pairs vars[i] with model.get(i), None when the model
\* has no index i
decode_model(variables, model) ==
    [k \in 1..(Len(variables) - 1) |->
        <<variables[k + 1], IF k + 1 <= Len(model) THEN model[k + 1] ELSE None>>]

(***************************************************************************)
(* KnowledgeBase for EncoderSAT<Var>                                       *)
(***************************************************************************)
\* ask, lines 67-71: for every literal of the clause, the clause {not literal, not t}
RECURSIVE tseytin_literals(_, _, _)
tseytin_literals(E, tseytin, clause) ==
    IF clause = <<>>
    THEN E
    ELSE LET r == register_literal(E, not(Head(clause)))
             not_tseytin == not(tseytin)
         IN  tseytin_literals(add_raw_clause(r.enc, <<r.lit, not_tseytin>>),
                              tseytin, Tail(clause))

\* the Tseytin loop that passes over a clause with no literal
RECURSIVE tseytin_clauses_skip_empty(_, _, _)
tseytin_clauses_skip_empty(E, formula, tseytin_clause) ==
    IF formula = <<>>
    THEN add_raw_clause(E, tseytin_clause)
    ELSE IF Head(formula) = <<>>
         THEN tseytin_clauses_skip_empty(E, Tail(formula), tseytin_clause)
         ELSE LET t == create_raw_variable(E)
                  linked == tseytin_literals(t.enc, t.lit, Head(formula))
                  r == register_clause(linked, Head(formula))
              IN  tseytin_clauses_skip_empty(add_raw_clause(r.enc, Append(r.clause, t.lit)),
                                             Tail(formula), Append(tseytin_clause, t.lit))

\* ask, lines 55-76: one auxiliary per clause, then the clause of all auxiliaries
RECURSIVE tseytin_clauses(_, _, _)
tseytin_clauses(E, formula, tseytin_clause) ==
    IF formula = <<>>
    THEN add_raw_clause(E, tseytin_clause)
    ELSE LET t == create_raw_variable(E)
             linked == tseytin_literals(t.enc, t.lit, Head(formula))
             r == register_clause(linked, Head(formula))
         IN  tseytin_clauses(add_raw_clause(r.enc, Append(r.clause, t.lit)),
                             Tail(formula), Append(tseytin_clause, t.lit))

\* the single-clause loop that adds each literal as it is, not negated
RECURSIVE negate_clause_as_is(_, _)
negate_clause_as_is(E, clause) ==
    IF clause = <<>>
    THEN E
    ELSE negate_clause_as_is(add(E, <<Head(clause)>>), Tail(clause))

\* ask, lines 79-81: the unit clause {not literal} for every literal of the clause
RECURSIVE negate_clause(_, _)
negate_clause(E, clause) ==
    IF clause = <<>>
    THEN E
    ELSE negate_clause(add(E, <<not(Head(clause))>>), Tail(clause))

\* the encoder ask hands to the oracle (formula has at least one clause)
ask_refutation(E, formula) ==
    IF Len(formula) > 1
    THEN tseytin_clauses(snapshot(E), formula, <<>>)
    ELSE negate_clause(snapshot(E), formula[1])

\* ask that sends the formula with no clause to the oracle like any other
ask_empty_to_oracle(E, formula) ==
    LET refutation == IF Len(formula) = 0 THEN snapshot(E) ELSE ask_refutation(E, formula)
    IN  {[enc |-> rewind(refutation), result |-> ~sat, oracle |-> TRUE] :
            sat \in picosat_sat(refutation)}

\* ask that returns on the formula with no clause without rewinding
ask_early_return(E, formula) ==
    IF Len(formula) = 0
    THEN {[enc |-> snapshot(E), result |-> FALSE, oracle |-> FALSE]}
    ELSE LET refutation == ask_refutation(E, formula)
         IN  {[enc |-> rewind(refutation), result |-> ~sat, oracle |-> TRUE] :
                 sat \in picosat_sat(refutation)}

\* ask(): every outcome it can return with, for an encoder that passes the assert
ask(E, formula) ==
    IF Len(formula) = 0
    THEN {[enc |-> rewind(snapshot(E)), result |-> FALSE, oracle |-> FALSE]}
    ELSE LET refutation == ask_refutation(E, formula)
         IN  {[enc |-> rewind(refutation), result |-> ~sat, oracle |-> TRUE] :
                 sat \in picosat_sat(refutation)}

\* tell that passes over a clause with no literal
RECURSIVE tell_skips_empty(_, _)
tell_skips_empty(E, formula) ==
    IF formula = <<>>
    THEN E
    ELSE IF Head(formula) = <<>>
         THEN tell_skips_empty(E, Tail(formula))
         ELSE tell_skips_empty(add(E, Head(formula)), Tail(formula))

RECURSIVE tell(_, _)
tell(E, formula) ==
    IF formula = <<>> THEN E ELSE tell(add(E, Head(formula)), Tail(formula))

consistency(E) == picosat_sat(E)


(***************************************************************************)
(* The world theory: Position, Direction, Var and init_kb                  *)
(***************************************************************************)
Position_new(x, y) == [x |-> x, y |-> y]

\* the array [North, Sud, East, Ovest] that init_kb runs through
Directions == <<"North", "Sud", "East", "Ovest">>

move_clone(pos, dir) ==
    CASE dir = "North" -> Position_new(pos.x, pos.y - 1)
      [] dir = "Sud"   -> Position_new(pos.x, pos.y + 1)
      [] dir = "East"  -> Position_new(pos.x + 1, pos.y)
      [] dir = "Ovest" -> Position_new(pos.x - 1, pos.y)

\* possible_move that takes the last column for the eastern border
possible_move_short_east(pos, dir, size) ==
    CASE dir = "North" -> pos.y > 0
      [] dir = "Sud"   -> pos.y < size - 1
      [] dir = "East"  -> pos.x + 1 < size - 1
      [] dir = "Ovest" -> pos.x > 0

possible_move(pos, dir, size) ==
    CASE dir = "North" -> pos.y > 0
      [] dir = "Sud"   -> pos.y < size - 1
      [] dir = "East"  -> pos.x < size - 1
      [] dir = "Ovest" -> pos.x > 0

\* the variants of Var that init_kb uses
Safe(pos) == [var |-> "Safe", pos |-> pos]
Wumpus(pos) == [var |-> "Wumpus", pos |-> pos]
Pit(pos) == [var |-> "Pit", pos |-> pos]
Gold(pos) == [var |-> "Gold", pos |-> pos]
Stench(pos) == [var |-> "Stench", pos |-> pos]
Breeze(pos) == [var |-> "Breeze", pos |-> pos]

\* ClauseBuilder: kb.clause(), add(literal) and end()
EncoderSAT_clause(E) == [encoder |-> E, clause |-> <<>>]

ClauseBuilder_add(B, literal) ==
    LET r == register_literal(B.encoder, literal)
    IN  [encoder |-> r.enc, clause |-> Append(B.clause, r.lit)]

ClauseBuilder_end(B) == [B.encoder EXCEPT !.clauses = Append(@, B.clause)]

\* the cells in the order of the loops for i in 0..size, for j in 0..size
cells(size) ==
    [k \in 1..(size * size) |-> Position_new((k - 1) \div size, (k - 1) % size)]

\* the sequences from the lo-th to the hi-th, one after the other
RECURSIVE concat_from(_, _, _)
concat_from(seqs, lo, hi) ==
    IF lo > hi
    THEN <<>>
    ELSE IF lo = hi
         THEN seqs[lo]
         ELSE concat_from(seqs, lo, (lo + hi) \div 2)
                  \o concat_from(seqs, ((lo + hi) \div 2) + 1, hi)

concat(seqs) == concat_from(seqs, 1, Len(seqs))

\* a clause init_kb stores: through a ClauseBuilder, or through kb.add
by_builder(literals) == [by |-> "clause", literals |-> literals]
by_add(literals) == [by |-> "add", literals |-> literals]

\* init_kb, lines 189-199: the Wumpus is in at least one cell
at_least_one_wumpus(size) ==
    <<by_builder([k \in 1..(size * size) |-> Pos(Wumpus(cells(size)[k]))])>>

\* init_kb, lines 241-249: the gold is in at least one cell
at_least_one_gold(size) ==
    <<by_builder([k \in 1..(size * size) |-> Pos(Gold(cells(size)[k]))])>>

\* init_kb, lines 203-207
start_is_safe == <<by_builder(<<Pos(Safe(Position_new(0, 0)))>>)>>

\* at_most_one that stores the Wumpus clause of a pair and leaves out its Gold clause
at_most_one_wumpus(size) ==
    LET n == size * size
        pairs == SelectSeq([k \in 1..(n * n) |->
                               <<cells(size)[((k - 1) \div n) + 1], cells(size)[((k - 1) % n) + 1]>>],
                           LAMBDA pair : pair[1] # pair[2])
    IN  [m \in 1..Len(pairs) |->
            by_builder(<<Neg(Wumpus(pairs[m][1])), Neg(Wumpus(pairs[m][2]))>>)]

\* init_kb, lines 213-236: for every ordered pair of distinct cells, not both Wumpus
\* and then not both Gold
at_most_one(size) ==
    LET n == size * size
        pairs == SelectSeq([k \in 1..(n * n) |->
                               <<cells(size)[((k - 1) \div n) + 1], cells(size)[((k - 1) % n) + 1]>>],
                           LAMBDA pair : pair[1] # pair[2])
    IN  [m \in 1..(2 * Len(pairs)) |->
            LET pos1 == pairs[(m + 1) \div 2][1]
                pos2 == pairs[(m + 1) \div 2][2]
            IN  IF m % 2 = 1
                THEN by_builder(<<Neg(Wumpus(pos1)), Neg(Wumpus(pos2))>>)
                ELSE by_builder(<<Neg(Gold(pos1)), Neg(Gold(pos2))>>)]

\* physics_of that never pushes a Wumpus literal to puzza_implica_wumpus
physics_of_no_wumpus(pos, size) ==
    LET dirs == SelectSeq(Directions, LAMBDA dir : possible_move(pos, dir, size))
        vento_implica_pozzi ==
            <<Neg(Breeze(pos))>> \o [d \in 1..Len(dirs) |-> Pos(Pit(move_clone(pos, dirs[d])))]
        puzza_implica_wumpus == <<Neg(Stench(pos))>>
    IN  concat([d \in 1..Len(dirs) |->
                  <<by_builder(<<Neg(Pit(pos)), Pos(Breeze(move_clone(pos, dirs[d])))>>),
                    by_builder(<<Neg(Wumpus(pos)), Pos(Stench(move_clone(pos, dirs[d])))>>)>>])
        \o <<by_add(vento_implica_pozzi), by_add(puzza_implica_wumpus)>>

\* init_kb, lines 263-299: the clauses of one cell
physics_of(pos, size) ==
    LET dirs == SelectSeq(Directions, LAMBDA dir : possible_move(pos, dir, size))
        vento_implica_pozzi ==
            <<Neg(Breeze(pos))>> \o [d \in 1..Len(dirs) |-> Pos(Pit(move_clone(pos, dirs[d])))]
        puzza_implica_wumpus ==
            <<Neg(Stench(pos))>> \o [d \in 1..Len(dirs) |-> Pos(Wumpus(move_clone(pos, dirs[d])))]
    IN  concat([d \in 1..Len(dirs) |->
                  <<by_builder(<<Neg(Pit(pos)), Pos(Breeze(move_clone(pos, dirs[d])))>>),
                    by_builder(<<Neg(Wumpus(pos)), Pos(Stench(move_clone(pos, dirs[d])))>>)>>])
        \o <<by_add(vento_implica_pozzi), by_add(puzza_implica_wumpus)>>

\* init_kb, lines 261-301
physics(size) == concat([k \in 1..(size * size) |-> physics_of(cells(size)[k], size)])

\* safety that leaves out the clause (Safe or Wumpus or Pit) of every cell
safety_one_way(size) ==
    concat([k \in 1..(size * size) |->
              LET pos == cells(size)[k]
              IN  <<by_builder(<<Neg(Safe(pos)), Neg(Pit(pos))>>),
                    by_builder(<<Neg(Safe(pos)), Neg(Wumpus(pos))>>)>>])

\* init_kb, lines 308-338
safety(size) ==
    concat([k \in 1..(size * size) |->
              LET pos == cells(size)[k]
              IN  <<by_builder(<<Pos(Safe(pos)), Pos(Wumpus(pos)), Pos(Pit(pos))>>),
                    by_builder(<<Neg(Safe(pos)), Neg(Pit(pos))>>),
                    by_builder(<<Neg(Safe(pos)), Neg(Wumpus(pos))>>)>>])

\* the clauses init_kb stores, in the order it stores them
init_kb_clauses(size) ==
    at_least_one_wumpus(size) \o start_is_safe \o at_most_one(size)
        \o at_least_one_gold(size) \o physics(size) \o safety(size)

\* init_kb of main.rs, lines 258-410, for each size: the clauses it stores, in the
\* order it stores them.  Var holds x and y where kb.rs holds a Position; the
\* neighbours of a cell are taken in the order x - 1, x + 1, y - 1, y + 1, and after a
\* Pit clause with Breeze the Wumpus clause is built with Breeze as well
main_init_kb_calls ==
    [size \in 1..3 |->
        LET neighbours_of(pos) ==
                SelectSeq(<<"Ovest", "East", "North", "Sud">>,
                          LAMBDA dir : possible_move(pos, dir, size))
            physics_of_cell(pos) ==
                LET dirs == neighbours_of(pos)
                IN  concat([d \in 1..Len(dirs) |->
                              <<by_builder(<<Neg(Pit(pos)),
                                             Pos(Breeze(move_clone(pos, dirs[d])))>>),
                                by_builder(<<Neg(Wumpus(pos)),
                                             Pos(Breeze(move_clone(pos, dirs[d])))>>)>>])
                    \o <<by_add(<<Neg(Breeze(pos))>>
                                    \o [d \in 1..Len(dirs) |->
                                           Pos(Pit(move_clone(pos, dirs[d])))]),
                         by_add(<<Neg(Stench(pos))>>
                                    \o [d \in 1..Len(dirs) |->
                                           Pos(Wumpus(move_clone(pos, dirs[d])))])>>
            safety_of_cell(pos) ==
                <<by_builder(<<Pos(Wumpus(pos)), Pos(Pit(pos)), Pos(Safe(pos))>>),
                  by_builder(<<Neg(Safe(pos)), Neg(Wumpus(pos))>>),
                  by_builder(<<Neg(Safe(pos)), Neg(Pit(pos))>>)>>
        IN  at_least_one_wumpus(size) \o at_most_one(size) \o at_least_one_gold(size)
                \o concat([k \in 1..(size * size) |-> physics_of_cell(cells(size)[k])])
                \o concat([k \in 1..(size * size) |-> safety_of_cell(cells(size)[k])])]

\* create_query_from_action for Action::Move(direction) at the position p
create_query_from_action(direction, p) == <<<<Pos(Safe(move_clone(p, direction)))>>>>

\* create_ground_truth_from_perception that tells not Gold when nothing glitters
create_ground_truth_gold_signed(p) ==
    <<<<IF p.breeze THEN Pos(Breeze(p.position)) ELSE Neg(Breeze(p.position))>>>>
        \o <<<<IF p.glitter THEN Pos(Gold(p.position)) ELSE Neg(Gold(p.position))>>>>
        \o <<<<IF p.stench THEN Pos(Stench(p.position)) ELSE Neg(Stench(p.position))>>>>

\* create_ground_truth_from_perception that never negates a literal
create_ground_truth_unsigned(p) ==
    <<<<Pos(Breeze(p.position))>>>>
        \o (IF p.glitter THEN <<<<Pos(Gold(p.position))>>>> ELSE <<>>)
        \o <<<<Pos(Stench(p.position))>>>>

\* create_ground_truth_from_perception: Breeze by its sign, Gold when it glitters,
\* Stench by its sign
create_ground_truth_from_perception(p) ==
    <<<<IF p.breeze THEN Pos(Breeze(p.position)) ELSE Neg(Breeze(p.position))>>>>
        \o (IF p.glitter THEN <<<<Pos(Gold(p.position))>>>> ELSE <<>>)
        \o <<<<IF p.stench THEN Pos(Stench(p.position)) ELSE Neg(Stench(p.position))>>>>

(***************************************************************************)
(* The world (src/src/world.rs): Action, World::new, perceptions and       *)
(* do_action.  dungeon[y][x] of the source is W.dungeon[y + 1][x + 1].     *)
(***************************************************************************)
Move(dir) == [action |-> "Move", dir |-> dir]
Grab == [action |-> "Grab"]
Shoot(dir) == [action |-> "Shoot", dir |-> dir]
Exit == [action |-> "Exit"]

\* the cells generate_random_position_not_covered can return when the random source
\* draws its positions from the set draws: not (0,0), not covered
free_cells(draws, covered) == draws \ ({Position_new(0, 0)} \cup covered)

\* World::new(dim, pit_number): every placement it can make with positions drawn from
\* draws, once both assertions hold; no world when one of them fails
World_new(dim, pit_number, draws) ==
    IF dim > 0 /\ dim * dim > pit_number + 1 + 1
    THEN {[dungeon |->
              [row \in 1..dim |-> [col \in 1..dim |->
                  LET pos == Position_new(col - 1, row - 1)
                  IN  CASE pos \in t[1] -> Some("Pit")
                        [] pos = t[2] -> Some("Wumpus")
                        [] pos = t[3] -> Some("Gold")
                        [] OTHER -> None]],
           hero_pos |-> Position_new(0, 0),
           arrow |-> TRUE,
           gold_in_dungeon |-> TRUE] :
             t \in {u \in (SUBSET free_cells(draws, {})) \X free_cells(draws, {})
                            \X free_cells(draws, {}) :
                       /\ Cardinality(u[1]) = pit_number
                       /\ u[2] \in free_cells(draws, u[1])
                       /\ u[3] \in free_cells(draws, u[1] \cup {u[2]})}}
    ELSE {}

there_is_something(W, x, y, entity) == W.dungeon[y + 1][x + 1] = Some(entity)

there_is_a_pit(W, x, y) == there_is_something(W, x, y, "Pit")

there_is_the_wumpus(W, x, y) == there_is_something(W, x, y, "Wumpus")

there_is_gold(W, x, y) == there_is_something(W, x, y, "Gold")

\* perceptions(): glitter on the gold; for each of the four sides inside the board,
\* breeze when it holds a pit, else stench when it holds the Wumpus.  howl and bump keep
\* their default and are left out.
perceptions(W) ==
    LET x == W.hero_pos.x
        y == W.hero_pos.y
        sides ==
            (IF x # 0 THEN {Position_new(x - 1, y)} ELSE {})
                \cup (IF y # 0 THEN {Position_new(x, y - 1)} ELSE {})
                \cup (IF x # Len(W.dungeon) - 1 THEN {Position_new(x + 1, y)} ELSE {})
                \cup (IF y # Len(W.dungeon) - 1 THEN {Position_new(x, y + 1)} ELSE {})
    IN  [glitter |-> there_is_gold(W, x, y),
         stench |-> \E side \in sides :
                        ~there_is_a_pit(W, side.x, side.y)
                            /\ there_is_the_wumpus(W, side.x, side.y),
         breeze |-> \E side \in sides : there_is_a_pit(W, side.x, side.y),
         position |-> W.hero_pos,
         board_size |-> Len(W.dungeon)]

\* the hero's cell holds the Wumpus or a pit: the check that ends do_action
hero_is_dead(W) ==
    \/ there_is_the_wumpus(W, W.hero_pos.x, W.hero_pos.y)
    \/ there_is_a_pit(W, W.hero_pos.x, W.hero_pos.y)

\* do_action(action): the world it leaves and how the process goes on: "running",
\* "exit(0)", "exit(1)", or "panicked" (todo!(), and a move off the board, which
\* overflows or indexes the dungeon out of its bounds)
do_action(W, action) ==
    CASE action.action = "Move" ->
            IF possible_move(W.hero_pos, action.dir, Len(W.dungeon))
            THEN LET moved == [W EXCEPT !.hero_pos = move_clone(@, action.dir)]
                 IN  [world |-> moved,
                      status |-> IF hero_is_dead(moved) THEN "exit(1)" ELSE "running"]
            ELSE [world |-> W, status |-> "panicked"]
      [] action.action = "Grab" ->
            IF /\ W.dungeon[W.hero_pos.y + 1][W.hero_pos.x + 1] # None
               /\ W.dungeon[W.hero_pos.y + 1][W.hero_pos.x + 1] # Some("Gold")
            THEN [world |-> W, status |-> "exit(1)"]
            ELSE LET grabbed == [W EXCEPT !.gold_in_dungeon = FALSE,
                                         !.dungeon[W.hero_pos.y + 1][W.hero_pos.x + 1] = None]
                 IN  [world |-> grabbed,
                      status |-> IF hero_is_dead(grabbed) THEN "exit(1)" ELSE "running"]
      [] action.action = "Shoot" -> [world |-> W, status |-> "panicked"]
      [] action.action = "Exit" ->
            [world |-> W,
             status |-> IF W.hero_pos = Position_new(0, 0) THEN "exit(0)" ELSE "exit(1)"]

(***************************************************************************)
(* The hero (src/src/hero.rs).  A Hero value h is a record [kb, obj, t,    *)
(* cache, plan, size_map, calls]: calls is the history of the calls of the *)
(* knowledge base and of the planner in the turn.  Every method returns    *)
(* the set of its outcomes [hero, status, ret]: status is "running" when   *)
(* the method returned ret, and "panicked" or "exit(1)" when it ended the  *)
(* process.                                                                *)
(***************************************************************************)
i32_MAX == 2147483647

i32_MIN == (0 - i32_MAX) - 1

\* Cache::new that leaves the safe set empty
Cache_new_empty ==
    [visited |-> {}, safe |-> {}, _unsafe |-> {}, wumpus |-> None]

\* Cache::new(): (0,0) is safe
Cache_new ==
    [visited |-> {}, safe |-> {Position_new(0, 0)}, _unsafe |-> {}, wumpus |-> None]

Cache_is_safe(cache, p) == p \in cache.safe

Cache_is_unsafe(cache, p) == p \in cache._unsafe

is_visited(cache, p) == p \in cache.visited

safe_but_not_visited(cache, p) == Cache_is_safe(cache, p) /\ ~is_visited(cache, p)

\* the subtraction of move_clone overflows: usize has no -1.  A build with overflow
\* checks panics there; one without wraps to usize::MAX, the residue that move_clone
\* writes as -1, which is the coordinate of no cell.
move_clone_overflows(pos, dir) ==
    \/ dir = "North" /\ pos.y = 0
    \/ dir = "Ovest" /\ pos.x = 0

\* safe_neighbourhood(p): <<result>>, or None when a move_clone of its loop panics; the
\* loop stops at the first direction that panics or leads to a safe cell not visited
safe_neighbourhood(cache, p, checks) ==
    LET stops == {d \in DOMAIN Directions :
                     \/ checks /\ move_clone_overflows(p, Directions[d])
                     \/ safe_but_not_visited(cache, move_clone(p, Directions[d]))}
        first == CHOOSE d \in stops : \A e \in stops : d <= e
    IN  IF stops = {}
        THEN Some(FALSE)
        ELSE IF checks /\ move_clone_overflows(p, Directions[first])
             THEN None
             ELSE Some(TRUE)

distance_to_zero(p) == p.x + p.y

eq_to_zero(cache, this) == this = Position_new(0, 0)

\* executable_actions that offers the moves to the south and to the east only
executable_actions_forward(cache, size_map, state) ==
    LET dirs == SelectSeq(Directions,
                          LAMBDA dir : /\ dir \in {"Sud", "East"}
                                       /\ possible_move(state, dir, size_map)
                                       /\ Cache_is_safe(cache, move_clone(state, dir)))
    IN  [d \in 1..Len(dirs) |-> move_clone(state, dirs[d])]

\* FindPlan::executable_actions(state): the cells next to state that are on the board
\* and in the safe cache, in the order North, Sud, East, Ovest
executable_actions(cache, size_map, state) ==
    LET dirs == SelectSeq(Directions,
                          LAMBDA dir : /\ possible_move(state, dir, size_map)
                                       /\ Cache_is_safe(cache, move_clone(state, dir)))
    IN  [d \in 1..Len(dirs) |-> move_clone(state, dirs[d])]

\* the end of a path of actions that starts at the state start
path_end(start, path) == IF path = <<>> THEN start ELSE path[Len(path)]

\* the search of the planner, breadth first: paths holds every shortest path of the
\* current length, explored the states these or shorter paths end in; the result is the
\* set of the shortest paths to a suitable state, empty when there is none
RECURSIVE search_paths(_, _, _, _, _, _)
search_paths(cache, size_map, start, suitable, paths, explored) ==
    LET found == {path \in paths : path_end(start, path) \in suitable}
        longer == UNION {LET next == executable_actions(cache, size_map, path_end(start, path))
                         IN  {Append(path, next[i]) : i \in {j \in 1..Len(next) :
                                                               next[j] \notin explored}} :
                            path \in paths}
    IN  IF found # {}
        THEN found
        ELSE IF longer = {}
             THEN {}
             ELSE search_paths(cache, size_map, start, suitable, longer,
                               explored \cup {path_end(start, path) : path \in longer})

\* resolver.search(actual_position).actions of AStarExplorer and BFSExplorer, over
\* FindPlan with unit costs: Some(a shortest path of actions to a suitable state), the
\* empty path when the start is suitable, or None when no suitable state can be reached
search(cache, size_map, actual_position, suitable) ==
    LET paths == search_paths(cache, size_map, actual_position, suitable,
                              {<<>>}, {actual_position})
    IN  IF paths = {} THEN {None} ELSE {Some(path) : path \in paths}

\* the cells of the board that are safe and not visited: where create_plan_gold's
\* planner may stop
safe_unvisited(h) ==
    {c \in h.cache.safe : ~is_visited(h.cache, c)}

\* the outcome of a method: the hero it leaves, how the process goes on, what it returns
outcome(h, how, ret) == [hero |-> h, status |-> how, ret |-> ret]

\* one more call in the history of the turn; the history also marks where the two
\* loops of is_safe around an unsafe cell start ("requery") and end ("requery_end")
called(h, op, arg, result) ==
    [h EXCEPT !.calls = Append(@, [op |-> op, arg |-> arg, result |-> result])]

\* the outcome of a panic: the history names the assertion or operation that failed
panic(h, what) == outcome(called(h, "panic", what, FALSE), "panicked", None)

create_plan_to_go_home(h, actual_position) ==
    IF h.plan # None
    THEN {panic(h, "assert!(self.plan.is_none())")}
    ELSE {outcome(called([h EXCEPT !.plan = actions], "create_plan_to_go_home",
                         actual_position, actions # None),
                  "running", None) :
             actions \in search(h.cache, h.size_map, actual_position, {Position_new(0, 0)})}

create_plan_gold(h, actual_position) ==
    IF h.plan # None
    THEN {panic(h, "assert!(self.plan.is_none())")}
    ELSE {outcome(called([h EXCEPT !.plan = actions], "create_plan_gold",
                         actual_position, actions # None),
                  "running", None) :
             actions \in search(h.cache, h.size_map, actual_position, safe_unvisited(h))}

\* create_plan that answers false, where it should answer true, when a safe cell not
\* visited is next to the position
create_plan_no_neighbourhood(h, actual_position, checks) ==
    LET made == IF h.obj = "TakeGold"
                THEN create_plan_gold(h, actual_position)
                ELSE create_plan_to_go_home(h, actual_position)
    IN  IF h.obj = "TakeGold" /\ safe_neighbourhood(h.cache, actual_position, checks) = None
        THEN {panic(h, "attempt to subtract with overflow")}
        ELSE IF h.obj = "TakeGold"
                  /\ safe_neighbourhood(h.cache, actual_position, checks) = Some(TRUE)
             THEN {outcome(h, "running", FALSE)}
             ELSE {IF o.status = "running"
                   THEN outcome(o.hero, "running", o.hero.plan # None)
                   ELSE o : o \in made}

\* create_plan(actual_position): ret is whether there is a plan, or a safe cell not
\* visited next to the position
create_plan(h, actual_position, checks) ==
    LET made == IF h.obj = "TakeGold"
                THEN create_plan_gold(h, actual_position)
                ELSE create_plan_to_go_home(h, actual_position)
    IN  IF h.obj = "TakeGold" /\ safe_neighbourhood(h.cache, actual_position, checks) = None
        THEN {panic(h, "attempt to subtract with overflow")}
        ELSE IF h.obj = "TakeGold"
                  /\ safe_neighbourhood(h.cache, actual_position, checks) = Some(TRUE)
             THEN {outcome(h, "running", TRUE)}
             ELSE {IF o.status = "running"
                   THEN outcome(o.hero, "running", o.hero.plan # None)
                   ELSE o : o \in made}

\* the index from 1 of the first occurrence of pos in the plan, 0 when it has none
plan_position(plan, pos) ==
    IF \E i \in 1..Len(plan) : plan[i] = pos
    THEN CHOOSE i \in 1..Len(plan) : plan[i] = pos /\ \A j \in 1..(i - 1) : plan[j] # pos
    ELSE 0

\* utility_take_gold that values Exit like a move to a cell not visited
utility_take_gold_exit(h, a, p) ==
    CASE a.action = "Move" ->
            IF is_visited(h.cache, move_clone(p, a.dir))
            THEN IF h.plan # None
                 THEN LET plan == h.plan[1]
                          i == plan_position(plan, move_clone(p, a.dir))
                      IN  IF i # 0
                          THEN outcome(IF i = Len(plan) THEN [h EXCEPT !.plan = None] ELSE h,
                                       "running", 0 - (Len(plan) - (i - 1) - 1))
                          ELSE outcome(h, "running", i32_MIN + 1)
                 ELSE outcome(h, "running", i32_MIN)
            ELSE outcome(h, "running", 1)
      [] a.action = "Grab" -> outcome(h, "running", i32_MAX)
      [] a.action = "Shoot" -> panic(h, "todo!()")
      [] a.action = "Exit" -> outcome(h, "running", 1)

\* utility_take_gold(a, p): the plan it leaves and the utility
utility_take_gold(h, a, p) ==
    CASE a.action = "Move" ->
            IF is_visited(h.cache, move_clone(p, a.dir))
            THEN IF h.plan # None
                 THEN LET plan == h.plan[1]
                          i == plan_position(plan, move_clone(p, a.dir))
                      IN  IF i # 0
                          THEN outcome(IF i = Len(plan) THEN [h EXCEPT !.plan = None] ELSE h,
                                       "running", 0 - (Len(plan) - (i - 1) - 1))
                          ELSE outcome(h, "running", i32_MIN + 1)
                 ELSE outcome(h, "running", i32_MIN)
            ELSE outcome(h, "running", 1)
      [] a.action = "Grab" -> outcome(h, "running", i32_MAX)
      [] a.action = "Shoot" -> panic(h, "todo!()")
      [] a.action = "Exit" -> outcome(h, "running", i32_MIN)

\* utility_go_home that values a Move inside the plan by the distance of the position
\* it starts from
utility_go_home_from(h, a, p) ==
    IF h.plan = None
    THEN panic(h, "assert!(self.plan.is_some())")
    ELSE CASE a.action = "Move" ->
                 IF plan_position(h.plan[1], move_clone(p, a.dir)) # 0
                 THEN outcome(h, "running", 0 - distance_to_zero(p))
                 ELSE outcome(h, "running", i32_MIN)
           [] a.action = "Grab" -> outcome(h, "running", i32_MAX)
           [] a.action = "Shoot" -> outcome(h, "running", i32_MIN)
           [] a.action = "Exit" -> outcome(h, "running", i32_MAX)

\* utility_go_home(a, p): the assertion that a plan exists, then the utility
utility_go_home(h, a, p) ==
    IF h.plan = None
    THEN panic(h, "assert!(self.plan.is_some())")
    ELSE CASE a.action = "Move" ->
                 IF plan_position(h.plan[1], move_clone(p, a.dir)) # 0
                 THEN outcome(h, "running", 0 - distance_to_zero(move_clone(p, a.dir)))
                 ELSE outcome(h, "running", i32_MIN)
           [] a.action = "Grab" -> outcome(h, "running", i32_MAX)
           [] a.action = "Shoot" -> outcome(h, "running", i32_MIN)
           [] a.action = "Exit" -> outcome(h, "running", i32_MAX)

\* utility(a, p); the history of the turn keeps the evaluation: the action, the
\* position, the objective, the plan before and after, and the utility returned
utility(h, a, p) ==
    LET u == IF h.obj = "TakeGold" THEN utility_take_gold(h, a, p) ELSE utility_go_home(h, a, p)
    IN  IF u.status = "running"
        THEN outcome(called(u.hero, "utility",
                            [a |-> a, p |-> p, obj |-> h.obj, plan |-> h.plan,
                             left |-> u.hero.plan, value |-> u.ret], TRUE),
                     "running", u.ret)
        ELSE u

\* the queries of is_safe about a cell
create_safe_formula(pos) == <<<<Pos(Safe(pos))>>>>

create_unsafe_formula(pos) == <<<<Pos(Wumpus(pos)), Pos(Pit(pos))>>>>

create_wumpus_formula(pos) == <<<<Pos(Wumpus(pos))>>>>

create_pit_formula(pos) == <<<<Pos(Pit(pos))>>>>

\* self.kb.ask(formula): ret is the answer
kb_ask(h, formula) ==
    IF snapshot_assert(h.kb)
    THEN {outcome(called([h EXCEPT !.kb = o.enc], "ask", formula, o.result),
                  "running", o.result) : o \in ask(h.kb, formula)}
    ELSE {panic(h, "assert!(self.snapshot.is_none())")}

\* self.kb.tell(formula)
kb_tell(h, formula) == called([h EXCEPT !.kb = tell(@, formula)], "tell", formula, TRUE)

\* the cells next to pos on the board, in the order North, Sud, East, Ovest
neighbours(pos, size) ==
    LET dirs == SelectSeq(Directions, LAMBDA dir : possible_move(pos, dir, size))
    IN  [d \in 1..Len(dirs) |-> move_clone(pos, dirs[d])]

\* is_safe that takes every cell for safe, and puts it into the safe cache, without a
\* question to the knowledge base
is_safe_unasked(h, pos, original_position) ==
    {outcome([h EXCEPT !.cache.safe = @ \cup {pos}], "running", TRUE)}

\* is_safe(pos, original_position), and the loops that call it for each position of a
\* sequence in turn, from each of the outcomes so far
\* the loops of is_safe around an unsafe cell that take every cell they reach for safe
\* without a call of is_safe
is_safe_each_marking(outs, positions, i, original_position) ==
    {IF o.status = "running"
     THEN outcome([o.hero EXCEPT !.cache.safe = @ \cup {positions[k] : k \in i..Len(positions)}],
                  "running", o.ret)
     ELSE o : o \in outs}

RECURSIVE is_safe(_, _, _)
RECURSIVE is_safe_each(_, _, _, _)
is_safe_each(outs, positions, i, original_position) ==
    IF i > Len(positions)
    THEN outs
    ELSE LET after == UNION {IF o.status = "running"
                             THEN is_safe(o.hero, positions[i], original_position)
                             ELSE {o} : o \in outs}
         IN  is_safe_each(after, positions, i + 1, original_position)

\* is_safe that starts the two loops also around a cell it has just proved safe
is_safe_around_safe(h, pos, original_position) ==
    IF Cache_is_safe(h.cache, pos)
    THEN {outcome(h, "running", TRUE)}
    ELSE IF Cache_is_unsafe(h.cache, pos)
    THEN {outcome(h, "running", FALSE)}
    ELSE UNION {
        IF a.status # "running"
        THEN {a}
        ELSE IF a.ret
        THEN LET proved == [kb_tell(a.hero, create_safe_formula(pos))
                                EXCEPT !.cache.safe = @ \cup {pos}]
                 around == is_safe_each({outcome(called(proved, "requery", pos, TRUE),
                                                 "running", TRUE)},
                                        neighbours(pos, h.size_map)
                                            \o neighbours(original_position, h.size_map),
                                        1, original_position)
             IN  {IF o.status = "running"
                  THEN outcome(called(o.hero, "requery_end", pos, TRUE), "running", TRUE)
                  ELSE o : o \in around}
        ELSE UNION {
            IF b.status # "running"
            THEN {b}
            ELSE IF b.ret
            THEN UNION {
                IF c.status # "running"
                THEN {c}
                ELSE LET found == IF c.ret
                                  THEN [kb_tell(c.hero, create_wumpus_formula(pos))
                                            EXCEPT !.cache.wumpus = Some(pos)]
                                  ELSE kb_tell(c.hero, create_pit_formula(pos))
                         around == is_safe_each({outcome(called(found, "requery", pos, TRUE),
                                                         "running", FALSE)},
                                                neighbours(pos, h.size_map)
                                                    \o neighbours(original_position, h.size_map),
                                                1, original_position)
                     IN  {IF o.status = "running"
                          THEN outcome(called(o.hero, "requery_end", pos, TRUE), "running", FALSE)
                          ELSE o : o \in around} :
                c \in kb_ask([kb_tell(b.hero, create_unsafe_formula(pos))
                                  EXCEPT !.cache._unsafe = @ \cup {pos}],
                             create_wumpus_formula(pos))}
            ELSE {outcome(b.hero, "running", FALSE)} :
            b \in kb_ask(a.hero, create_unsafe_formula(pos))} :
        a \in kb_ask(h, create_safe_formula(pos))}

\* is_safe(pos, original_position): ret is the answer; the cell proved unsafe is put into
\* the unsafe cache before the two loops around it and around the origin
is_safe(h, pos, original_position) ==
    IF Cache_is_safe(h.cache, pos)
    THEN {outcome(h, "running", TRUE)}
    ELSE IF Cache_is_unsafe(h.cache, pos)
    THEN {outcome(h, "running", FALSE)}
    ELSE UNION {
        IF a.status # "running"
        THEN {a}
        ELSE IF a.ret
        THEN {outcome([kb_tell(a.hero, create_safe_formula(pos))
                           EXCEPT !.cache.safe = @ \cup {pos}], "running", TRUE)}
        ELSE UNION {
            IF b.status # "running"
            THEN {b}
            ELSE IF b.ret
            THEN UNION {
                IF c.status # "running"
                THEN {c}
                ELSE LET found == IF c.ret
                                  THEN [kb_tell(c.hero, create_wumpus_formula(pos))
                                            EXCEPT !.cache.wumpus = Some(pos)]
                                  ELSE kb_tell(c.hero, create_pit_formula(pos))
                         around == is_safe_each({outcome(called(found, "requery", pos, TRUE),
                                                         "running", FALSE)},
                                                neighbours(pos, h.size_map)
                                                    \o neighbours(original_position, h.size_map),
                                                1, original_position)
                     IN  {IF o.status = "running"
                          THEN outcome(called(o.hero, "requery_end", pos, TRUE), "running", FALSE)
                          ELSE o : o \in around} :
                c \in kb_ask([kb_tell(b.hero, create_unsafe_formula(pos))
                                  EXCEPT !.cache._unsafe = @ \cup {pos}],
                             create_wumpus_formula(pos))}
            ELSE {outcome(b.hero, "running", FALSE)} :
            b \in kb_ask(a.hero, create_unsafe_formula(pos))} :
        a \in kb_ask(h, create_safe_formula(pos))}

\* next_action, lines 394-433: the consistency check, the tell of the perception, Exit
\* at (0,0), the moves to cells of the safe cache, and Grab on glitter; ret holds
\* suitable_actions and the directions of action_to_consider
next_action_enumerate(h, p) ==
    {IF ~verdict
     THEN outcome(called(h, "consistency", None, FALSE), "exit(1)", None)
     ELSE LET told == kb_tell(called(h, "consistency", None, TRUE),
                              create_ground_truth_from_perception(p))
              moves == SelectSeq(Directions,
                           LAMBDA dir :
                               /\ possible_move(p.position, dir, p.board_size)
                               /\ ~Cache_is_unsafe(h.cache, move_clone(p.position, dir)))
              cached == SelectSeq(moves,
                           LAMBDA dir : Cache_is_safe(h.cache, move_clone(p.position, dir)))
              others == SelectSeq(moves,
                           LAMBDA dir : ~Cache_is_safe(h.cache, move_clone(p.position, dir)))
          IN  outcome(IF p.glitter THEN [told EXCEPT !.obj = "GoHome", !.plan = None] ELSE told,
                      "running",
                      [suitable_actions |->
                           (IF p.position = Position_new(0, 0) THEN <<Exit>> ELSE <<>>)
                               \o [i \in 1..Len(cached) |-> Move(cached[i])]
                               \o (IF p.glitter THEN <<Grab>> ELSE <<>>),
                       action_to_consider |-> others]) :
        verdict \in consistency(h.kb)}

\* next_action, lines 437-447: is_safe on the target of every action to consider, from
\* each outcome so far; ret is suitable_actions
RECURSIVE next_action_consider(_, _, _, _)
next_action_consider(outs, action_to_consider, i, p) ==
    IF i > Len(action_to_consider)
    THEN outs
    ELSE LET after ==
                 UNION {IF o.status = "running"
                        THEN {outcome(r.hero, r.status,
                                      IF r.status = "running" /\ r.ret
                                      THEN Append(o.ret, Move(action_to_consider[i]))
                                      ELSE o.ret) :
                                 r \in is_safe(o.hero,
                                               move_clone(p.position, action_to_consider[i]),
                                               p.position)}
                        ELSE {o} : o \in outs}
         IN  next_action_consider(after, action_to_consider, i + 1, p)

\* next_action_plan that keeps the position as the only visited cell
next_action_plan_one_visited(o, p, checks) ==
    IF ~Cache_is_safe(o.hero.cache, p.position)
    THEN {panic(o.hero, "assert!(self.cache.is_safe(&p.position))")}
    ELSE LET visited == [o.hero EXCEPT !.cache.visited = {p.position}]
         IN  IF visited.plan = None \/ visited.plan = Some(<<>>)
             THEN UNION {
                     IF c.status # "running"
                     THEN {c}
                     ELSE IF c.ret
                     THEN {outcome(c.hero, "running", o.ret)}
                     ELSE IF c.hero.obj = "GoHome"
                     THEN {panic(c.hero, "assert!(self.obj != Objective::GoHome)")}
                     ELSE {IF d.status # "running"
                           THEN d
                           ELSE IF d.ret
                           THEN outcome(d.hero, "running", o.ret)
                           ELSE panic(d.hero, "assert!(self.create_plan(p.position))") :
                              d \in create_plan([c.hero EXCEPT !.obj = "GoHome"],
                                                p.position, checks)} :
                     c \in create_plan([visited EXCEPT !.plan = None], p.position, checks)}
             ELSE {outcome(visited, "running", o.ret)}

\* next_action, lines 468-478: the position is in the safe cache and becomes visited; a
\* missing or empty plan is made again, and the objective becomes GoHome when none can
\* be made; ret is left as it is
next_action_plan(o, p, checks) ==
    IF ~Cache_is_safe(o.hero.cache, p.position)
    THEN {panic(o.hero, "assert!(self.cache.is_safe(&p.position))")}
    ELSE LET visited == [o.hero EXCEPT !.cache.visited = @ \cup {p.position}]
         IN  IF visited.plan = None \/ visited.plan = Some(<<>>)
             THEN UNION {
                     IF c.status # "running"
                     THEN {c}
                     ELSE IF c.ret
                     THEN {outcome(c.hero, "running", o.ret)}
                     ELSE IF c.hero.obj = "GoHome"
                     THEN {panic(c.hero, "assert!(self.obj != Objective::GoHome)")}
                     ELSE {IF d.status # "running"
                           THEN d
                           ELSE IF d.ret
                           THEN outcome(d.hero, "running", o.ret)
                           ELSE panic(d.hero, "assert!(self.create_plan(p.position))") :
                              d \in create_plan([c.hero EXCEPT !.obj = "GoHome"],
                                                p.position, checks)} :
                     c \in create_plan([visited EXCEPT !.plan = None], p.position, checks)}
             ELSE {outcome(visited, "running", o.ret)}

\* next_action, lines 484-496: the loop over suitable_actions from the i-th on, from each
\* outcome so far; ret holds best and best_utility, and an equal utility replaces best
\* or not
RECURSIVE next_action_best(_, _, _, _)
next_action_best(outs, suitable_actions, i, p) ==
    IF i > Len(suitable_actions)
    THEN outs
    ELSE LET after ==
                 UNION {IF o.status # "running"
                        THEN {o}
                        ELSE LET u == utility(o.hero, suitable_actions[i], p.position)
                             IN  IF u.status # "running"
                                 THEN {u}
                                 ELSE IF u.ret > o.ret.best_utility
                                 THEN {outcome(u.hero, "running",
                                               [best |-> Some(suitable_actions[i]),
                                                best_utility |-> u.ret])}
                                 ELSE IF u.ret = o.ret.best_utility
                                 THEN {outcome(u.hero, "running", o.ret),
                                       outcome(u.hero, "running",
                                               [o.ret EXCEPT !.best = Some(suitable_actions[i])])}
                                 ELSE {outcome(u.hero, "running", o.ret)} :
                           o \in outs}
         IN  next_action_best(after, suitable_actions, i + 1, p)

\* next_action, lines 482-483: best is the first suitable action, with its utility
next_action_first(o, p) ==
    IF o.ret = <<>>
    THEN outcome(o.hero, "running", [best |-> None, best_utility |-> i32_MIN])
    ELSE LET u == utility(o.hero, o.ret[1], p.position)
         IN  IF u.status # "running"
             THEN u
             ELSE outcome(u.hero, "running", [best |-> Some(o.ret[1]), best_utility |-> u.ret])

\* what a hero enters next_action with, apart from the clauses told twice
entry(h) == <<h.obj, h.cache, h.plan>>

\* next_action(p): ret is the action returned.  entered holds what the calls of
\* next_action that this one is nested in were entered with: a call entered like one of
\* them repeats it, and the nesting has no end ("overflowed": the stack runs out)
RECURSIVE next_action(_, _, _, _)
next_action(h, p, checks, entered) ==
    IF entry(h) \in entered
    THEN {outcome(h, "overflowed", None)}
    ELSE UNION {
        IF e.status # "running"
        THEN {e}
        ELSE UNION {
            IF s.status # "running"
            THEN {s}
            ELSE UNION {
                IF m.status # "running"
                THEN {m}
                ELSE UNION {
                    IF b.status # "running"
                    THEN {b}
                    ELSE IF b.ret.best_utility = i32_MIN \/ b.ret.best_utility = i32_MIN + 1
                    THEN UNION {
                            IF c.status # "running"
                            THEN {c}
                            ELSE next_action(c.hero, p, checks, entered \cup {entry(h)}) :
                            c \in create_plan([b.hero EXCEPT !.plan = None], p.position, checks)}
                    ELSE IF b.ret.best # None
                    THEN {outcome([b.hero EXCEPT !.t = @ + 1], "running", b.ret.best[1])}
                    ELSE {outcome(b.hero, "exit(1)", None)} :
                    b \in next_action_best({next_action_first(m, p)}, m.ret, 1, p)} :
                m \in next_action_plan(s, p, checks)} :
            s \in next_action_consider({outcome(e.hero, "running", e.ret.suitable_actions)},
                                       e.ret.action_to_consider, 1, p)} :
        e \in next_action_enumerate(h, p)}

(***************************************************************************)
(* Inputs of the calls.                                                    *)
(***************************************************************************)
\* every formula whose number of clauses plus number of literals is at most size
RECURSIVE Formulas(_)
Formulas(size) ==
    {<<>>} \cup
    UNION {{<<clause>> \o rest : clause \in [1..k -> Literals], rest \in Formulas(size - 1 - k)} :
              k \in 0..(size - 1)}

\* the formulas given to ask on a knowledge base
Queries == Formulas(MaxQuerySize)

\* the formulas told to a knowledge base
TellInputs ==
    {<<>>,
     <<<<>>>>,
     <<<<Pos("A")>>>>,
     <<<<Neg("A")>>>>,
     <<<<Pos("A"), Pos("B")>>, <<Neg("A")>>>>}

\* the formulas told between calls of the encoder's own methods
EncoderTellInputs == {<<<<Pos("B")>>, <<Neg("A")>>>>}

\* the clauses given to add and register_clause
ClauseInputs == {<<Neg("B"), Pos("A")>>}

\* the literals given to register_literal
LiteralInputs == {Pos("A"), Neg("B")}

\* the formulas given to ask between calls of the encoder's own methods
AskInputs ==
    {<<>>,
     <<<<Pos("A"), Neg("B")>>>>,
     <<<<Pos("B")>>, <<Neg("A")>>>>}

\* the domain variables interned into a fresh encoder
InternVars == {"A", "B", "C", "D"}

\* the literals interned into a fresh encoder: either polarity of every variable
InternLiterals == {Pos(x) : x \in InternVars} \cup {Neg(x) : x \in InternVars}

\* the clauses interned into a fresh encoder: with a repeated variable, and new after old
InternClauses ==
    {<<Neg("C"), Pos("A"), Pos("C")>>,
     <<Pos("D"), Neg("D"), Neg("B")>>}

\* the clauses added to an encoder whose text is then emitted: none of its literals,
\* one literal, and ten literals over ten variables
EncodeClauses ==
    {<<>>,
     <<Neg("A")>>,
     <<Pos("A"), Neg("B"), Pos("C"), Neg("D"), Pos("E"),
       Pos("F"), Neg("G"), Pos("H"), Pos("I"), Neg("J")>>}

\* the lines a solver output is made of: the two verdicts, a verdict with blanks
\* around it, a comment and a line of the model
OutputLines ==
    {s_SATISFIABLE,
     s_UNSATISFIABLE,
     <<" ">> \o s_SATISFIABLE \o <<" ">>,
     <<"c">>,
     <<"v", " ", "1", " ", "0">>}

\* the texts of at most n lines, every line ended by a newline
RECURSIVE Outputs(_)
Outputs(n) ==
    {<<>>} \cup
    (IF n = 0
     THEN {}
     ELSE {line \o <<"\n">> \o rest : line \in OutputLines, rest \in Outputs(n - 1)})

\* the solver outputs given to picosat_is_sat: also one whose only line has no newline
SolverOutputs == Outputs(MaxOutputLines) \cup {s_SATISFIABLE}

\* the outputs of a solver for a text of nvars variables: UNSAT, and SAT with a model
\* that makes every id true, every id false, the odd ids true, or names id 1 only
ModelOutputs(nvars) ==
    {s_UNSATISFIABLE \o <<"\n">>} \cup
    {s_SATISFIABLE \o <<"\n", "v", " ">> \o format_clause(model) :
        model \in {[i \in 1..nvars |-> Pos(i)],
                   [i \in 1..nvars |-> Neg(i)],
                   [i \in 1..nvars |-> IF i % 2 = 1 THEN Pos(i) ELSE Neg(i)],
                   [i \in 1..(IF nvars = 0 THEN 0 ELSE 1) |-> Pos(i)]}}

\* the sizes init_kb is called with
WorldSizes == 1..6

\* the sizes of the worlds whose knowledge base is told a perception and asked
ExploredSizes == {2, 3}

\* the clauses init_kb stores for each size
init_kb_calls == [size \in WorldSizes |-> init_kb_clauses(size)]

\* the perceptions of a world of this size
Perceptions(size) ==
    [glitter : BOOLEAN, stench : BOOLEAN, breeze : BOOLEAN,
     position : {Position_new(x, y) : x \in 0..(size - 1), y \in 0..(size - 1)},
     board_size : {size}]

\* the calls World::new(dim, pit_number) of the runs: <<dim, pit_number>>; the first
\* one fails the assertion on the number of cells
WorldInputs == {<<1, 0>>, <<2, 0>>, <<2, 1>>, <<3, 0>>, <<3, 1>>}

\* every cell of the board: what a random source without restriction draws from
board(dim) == {Position_new(x, y) : x \in 0..(dim - 1), y \in 0..(dim - 1)}

\* the actions given to do_action
ActionInputs ==
    {Move(Directions[d]) : d \in DOMAIN Directions}
        \cup {Shoot(Directions[d]) : d \in DOMAIN Directions} \cup {Grab, Exit}

\* the sizes of the boards of the runs of a hero
RunSizes == {2, 3}

\* the cells the random source draws in the runs of a hero: any cell of the board of
\* size 2, the cells of the last row of a larger board
RunDraws(dim) == IF dim = 2 THEN board(dim) ELSE {p \in board(dim) : p.y = dim - 1}

\* the raw clauses given to add_raw_clause: over the ids of the set ids
RawClauses(ids) == {<<Neg(i)>> : i \in ids}

(***************************************************************************)
(* State                                                                   *)
(***************************************************************************)
NoCall ==
    [op |-> "new", result |-> FALSE, oracle |-> FALSE, n |-> 0,
     fresh |-> FALSE, empty_clause |-> FALSE, reuse |-> FALSE,
     arg |-> None, ret |-> None]

\* the ids of a clause of Literal<usize>
clause_ids(clause) == {clause[j].v : j \in 1..Len(clause)}

\* the domain variables of a formula
formula_vars(formula) ==
    UNION {{inner(formula[i][j]) : j \in 1..Len(formula[i])} : i \in 1..Len(formula)}

Min(a, b) == IF a < b THEN a ELSE b

Init ==
    /\ kb = new
    /\ status = "running"
    /\ pre = None
    /\ raw_ids = {}
    /\ stale = {}
    /\ misused = FALSE
    /\ world = None
    /\ last = NoCall
    /\ dungeon = None
    /\ hero = None
    /\ overflow_checks = None

Panic(op) ==
    /\ status' = "panicked"
    /\ last' = [NoCall EXCEPT !.op = op]
    /\ UNCHANGED <<kb, pre, raw_ids, stale, misused, world, dungeon, hero, overflow_checks>>

\* the encoder becomes E after a call of op(arg) that returned ret and may have
\* allocated ids
Returned(op, E, arg, ret) ==
    /\ kb' = E
    /\ stale' = {i \in stale : i > E.counter}
    /\ last' = [NoCall EXCEPT !.op = op, !.reuse = \E i \in stale : i <= E.counter,
                             !.arg = arg, !.ret = ret]

\* the encoder becomes E after a call that may have allocated ids
Allocate(op, E) == Returned(op, E, None, None)

(***************************************************************************)
(* The calls of the KnowledgeBase trait                                    *)
(***************************************************************************)
Tell(formula) ==
    /\ status = "running"
    /\ Len(kb.clauses) + Len(formula) <= MaxClauses
    /\ Returned("tell", tell(kb, formula), Some(formula), None)
    /\ UNCHANGED <<status, pre, raw_ids, misused, world, dungeon, hero, overflow_checks>>

Ask(formula) ==
    /\ status = "running"
    /\ IF snapshot_assert(kb)
       THEN \E out \in ask(kb, formula) :
               /\ kb' = out.enc
               /\ last' = [NoCall EXCEPT
                             !.op = "ask", !.result = out.result, !.oracle = out.oracle,
                             !.n = Min(Len(formula), 2),
                             !.fresh = (formula_vars(formula) \ DOMAIN kb.map # {}),
                             !.empty_clause = \E i \in 1..Len(formula) : formula[i] = <<>>]
               /\ UNCHANGED <<status, pre, raw_ids, stale, misused, world, dungeon, hero, overflow_checks>>
       ELSE Panic("ask")

Consistency ==
    /\ status = "running"
    /\ \E result \in consistency(kb) :
          last' = [NoCall EXCEPT !.op = "consistency", !.result = result, !.oracle = TRUE]
    /\ UNCHANGED <<kb, status, pre, raw_ids, stale, misused, world, dungeon, hero, overflow_checks>>

(***************************************************************************)
(* The calls of EncoderSAT itself                                          *)
(***************************************************************************)
Add(clause) ==
    /\ status = "running"
    /\ Len(kb.clauses) < MaxClauses
    /\ Allocate("add", add(kb, clause))
    /\ UNCHANGED <<status, pre, raw_ids, misused, world, dungeon, hero, overflow_checks>>

RegisterLiteral(literal) ==
    /\ status = "running"
    /\ LET r == register_literal(kb, literal)
       IN  Returned("register_literal", r.enc, Some(literal), Some(r.lit))
    /\ UNCHANGED <<status, pre, raw_ids, misused, world, dungeon, hero, overflow_checks>>

RegisterClause(clause) ==
    /\ status = "running"
    /\ LET r == register_clause(kb, clause)
       IN  Returned("register_clause", r.enc, Some(clause), Some(r.clause))
    /\ UNCHANGED <<status, pre, raw_ids, misused, world, dungeon, hero, overflow_checks>>

CreateRawVariable ==
    /\ status = "running"
    /\ Cardinality(raw_ids) < MaxRaw
    /\ LET r == create_raw_variable(kb)
       IN  /\ Allocate("create_raw_variable", r.enc)
           /\ raw_ids' = raw_ids \cup {r.lit.v}
    /\ UNCHANGED <<status, pre, misused, world, dungeon, hero, overflow_checks>>

\* add_raw_clause of a clause over ids the encoder has returned: the ids allocated
\* now, and the ids create_raw_variable returned before a rewind discarded them
AddRawClause ==
    /\ status = "running"
    /\ Len(kb.clauses) < MaxClauses
    /\ \E raw_clause \in RawClauses((1..kb.counter) \cup stale) :
          /\ kb' = add_raw_clause(kb, raw_clause)
          /\ misused' = (misused \/ ~(clause_ids(raw_clause) \subseteq 1..kb.counter))
    /\ last' = [NoCall EXCEPT !.op = "add_raw_clause"]
    /\ UNCHANGED <<status, pre, raw_ids, stale, world, dungeon, hero, overflow_checks>>

Snapshot ==
    /\ status = "running"
    /\ IF snapshot_assert(kb)
       THEN /\ kb' = snapshot(kb)
            /\ pre' = Some(kb)
            /\ last' = [NoCall EXCEPT !.op = "snapshot"]
            /\ UNCHANGED <<status, raw_ids, stale, misused, world, dungeon, hero, overflow_checks>>
       ELSE Panic("snapshot")

Rewind ==
    /\ status = "running"
    /\ IF rewind_expect(kb)
       THEN /\ kb' = rewind(kb)
            /\ pre' = None
            /\ raw_ids' = {i \in raw_ids : i <= kb'.counter}
            /\ stale' = {i \in stale \cup raw_ids : i > kb'.counter}
            /\ last' = [NoCall EXCEPT
                          !.op = "rewind",
                          !.n = Min(Len(kb.clauses) - Len(kb'.clauses), 2),
                          !.fresh = (DOMAIN kb'.map # DOMAIN kb.map)]
            /\ UNCHANGED <<status, misused, world, dungeon, hero, overflow_checks>>
       ELSE Panic("rewind")

\* encode(): reads the encoder and returns the text with the name table
Encode ==
    /\ status = "running"
    /\ last' = [NoCall EXCEPT !.op = "encode", !.ret = Some(encode(kb))]
    /\ UNCHANGED <<kb, status, pre, raw_ids, stale, misused, world, dungeon, hero, overflow_checks>>

\* decode_model on the name table of encode() and on the model that
\* parse_picosat_model reads off the output for the variables of this encoder
DecodeModel(output) ==
    /\ status = "running"
    /\ LET variables == encode(kb).variables
           model == parse_picosat_model(output, kb.counter)
       IN  /\ model # None
           /\ last' = [NoCall EXCEPT !.op = "decode_model", !.arg = Some(output),
                                    !.ret = Some([variables |-> variables,
                                                  model |-> model[1],
                                                  pairs |-> decode_model(variables, model[1])])]
    /\ UNCHANGED <<kb, status, pre, raw_ids, stale, misused, world, dungeon, hero, overflow_checks>>

\* picosat_is_sat(output): the verdict, or the panic on an output with no byte
PicosatIsSat(output) ==
    /\ status = "running"
    /\ IF picosat_is_sat_panics(output)
       THEN /\ status' = "panicked"
            /\ last' = [NoCall EXCEPT !.op = "picosat_is_sat", !.arg = Some(output)]
       ELSE /\ status' = status
            /\ last' = [NoCall EXCEPT !.op = "picosat_is_sat", !.arg = Some(output),
                                     !.ret = Some(picosat_is_sat(output))]
    /\ UNCHANGED <<kb, pre, raw_ids, stale, misused, world, dungeon, hero, overflow_checks>>

(***************************************************************************)
(* init_kb and the use of the knowledge base it returns                    *)
(***************************************************************************)
\* init_kb(size) is entered: let mut kb = EncoderSAT::new()
InitKb(size) ==
    /\ status = "running"
    /\ world = None
    /\ kb = new
    /\ world' = Some([size |-> size, stored |-> 0, clause |-> None, told |-> None])
    /\ last' = [NoCall EXCEPT !.op = "init_kb", !.arg = Some(size)]
    /\ UNCHANGED <<kb, status, pre, raw_ids, stale, misused, dungeon, hero, overflow_checks>>

\* init_kb of main.rs is entered with this size: let mut kb = EncoderSAT::new()
MainInitKb(size) ==
    /\ status = "running"
    /\ world = None
    /\ kb = new
    /\ world' = Some([size |-> size, stored |-> 0, clause |-> None, told |-> None,
                      builder |-> "main.rs"])
    /\ last' = [NoCall EXCEPT !.op = "init_kb", !.arg = Some(size)]
    /\ UNCHANGED <<kb, status, pre, raw_ids, stale, misused, dungeon, hero, overflow_checks>>

\* the clauses of the init_kb that was entered: that of main.rs, or that of kb.rs
init_kb_body ==
    IF "builder" \in DOMAIN world[1]
    THEN main_init_kb_calls[world[1].size]
    ELSE init_kb_calls[world[1].size]

\* init_kb has stored its last clause and returned kb
init_kb_returned == world # None /\ world[1].stored = Len(init_kb_body)

\* the clause init_kb is about to store, or is building
init_kb_call == init_kb_body[world[1].stored + 1]

\* init_kb is at a statement of its body
InInitKb ==
    /\ status = "running"
    /\ world # None
    /\ ~init_kb_returned
    /\ last' = [NoCall EXCEPT !.op = "init_kb", !.arg = Some(world[1].size)]
    /\ UNCHANGED <<status, pre, raw_ids, stale, misused, dungeon, hero, overflow_checks>>

\* clause = kb.clause(): kb moves into the builder, whose clause is empty
InitKbClause ==
    /\ InInitKb
    /\ init_kb_call.by = "clause"
    /\ world[1].clause = None
    /\ world' = Some([world[1] EXCEPT !.clause = Some(EncoderSAT_clause(kb).clause)])
    /\ kb' = EncoderSAT_clause(kb).encoder

\* clause.add(literal), for the next literal of the clause being built
InitKbClauseAdd ==
    /\ InInitKb
    /\ world[1].clause # None
    /\ Len(world[1].clause[1]) < Len(init_kb_call.literals)
    /\ LET B == ClauseBuilder_add([encoder |-> kb, clause |-> world[1].clause[1]],
                                  init_kb_call.literals[Len(world[1].clause[1]) + 1])
       IN  /\ kb' = B.encoder
           /\ world' = Some([world[1] EXCEPT !.clause = Some(B.clause)])

\* kb = clause.end(), once every literal of the clause has been added
InitKbClauseEnd ==
    /\ InInitKb
    /\ world[1].clause # None
    /\ Len(world[1].clause[1]) = Len(init_kb_call.literals)
    /\ kb' = ClauseBuilder_end([encoder |-> kb, clause |-> world[1].clause[1]])
    /\ world' = Some([world[1] EXCEPT !.clause = None, !.stored = @ + 1])

\* kb.add(vento_implica_pozzi) and kb.add(puzza_implica_wumpus)
InitKbAdd ==
    /\ InInitKb
    /\ init_kb_call.by = "add"
    /\ kb' = add(kb, init_kb_call.literals)
    /\ world' = Some([world[1] EXCEPT !.stored = @ + 1])

\* consistency() on the knowledge base init_kb returned
WorldConsistency == init_kb_returned /\ Consistency

\* tell of the ground truth of a perception: the first one the knowledge base is told
TellPerception(p) ==
    /\ status = "running"
    /\ init_kb_returned
    /\ world[1].told = None
    /\ Returned("tell", tell(kb, create_ground_truth_from_perception(p)),
                Some(create_ground_truth_from_perception(p)), None)
    /\ world' = Some([world[1] EXCEPT !.told = Some(p)])
    /\ UNCHANGED <<status, pre, raw_ids, misused, dungeon, hero, overflow_checks>>

\* ask of the query of a move that stays on the board, from the position of the
\* perception told
AskMove(direction) ==
    /\ status = "running"
    /\ init_kb_returned
    /\ world[1].told # None
    /\ possible_move(world[1].told[1].position, direction, world[1].size)
    /\ \E out \in ask(kb, create_query_from_action(direction, world[1].told[1].position)) :
          /\ kb' = out.enc
          /\ last' = [NoCall EXCEPT !.op = "ask", !.result = out.result,
                                   !.oracle = out.oracle, !.n = 1,
                                   !.arg = Some(create_query_from_action(
                                                    direction, world[1].told[1].position))]
    /\ UNCHANGED <<status, pre, raw_ids, stale, misused, world, dungeon, hero, overflow_checks>>

(***************************************************************************)
(* The world of a run                                                      *)
\* the exit code of a process that has ended: the argument of exit, or 101, which the
\* runtime exits with when the main thread panics
exit_code(how) ==
    CASE how = "exit(0)" -> 0
      [] how = "exit(1)" -> 1
      [] how = "panicked" -> 101

(***************************************************************************)
\* World::new(dim, pit_number): one of its placements with positions drawn from draws,
\* or the failed assertion
WorldNew(dim, pit_number, draws) ==
    /\ status = "running"
    /\ dungeon = None
    /\ IF World_new(dim, pit_number, draws) = {}
       THEN /\ status' = "panicked"
            /\ last' = [NoCall EXCEPT !.op = "World::new", !.arg = Some(<<dim, pit_number>>)]
            /\ UNCHANGED dungeon
       ELSE /\ \E W \in World_new(dim, pit_number, draws) : dungeon' = Some(W)
            /\ last' = [NoCall EXCEPT !.op = "World::new", !.arg = Some(<<dim, pit_number>>)]
            /\ UNCHANGED status
    /\ UNCHANGED <<kb, pre, raw_ids, stale, misused, world, hero, overflow_checks>>

\* world.do_action(action), for any action
DoAction(action) ==
    /\ status = "running"
    /\ dungeon # None
    /\ dungeon' = Some(do_action(dungeon[1], action).world)
    /\ status' = do_action(dungeon[1], action).status
    /\ last' = [NoCall EXCEPT !.op = "do_action", !.arg = Some(action)]
    /\ UNCHANGED <<kb, pre, raw_ids, stale, misused, world, hero, overflow_checks>>

(***************************************************************************)
(* The run of a hero: Hero::new, then perceptions, next_action and         *)
(* do_action turn after turn                                               *)
(***************************************************************************)
\* Hero::new(kb, size_map) with the knowledge base init_kb returned for the board of
\* the world, in a build with or without overflow checks
HeroNew ==
    /\ status = "running"
    /\ init_kb_returned
    /\ dungeon # None
    /\ hero = None
    /\ world[1].size = Len(dungeon[1].dungeon)
    /\ hero' = Some([obj |-> "TakeGold", t |-> 0, cache |-> Cache_new, plan |-> None,
                     size_map |-> world[1].size, calls |-> <<>>])
    /\ \E checks \in BOOLEAN : overflow_checks' = Some(checks)
    /\ last' = [NoCall EXCEPT !.op = "Hero::new"]
    /\ UNCHANGED <<kb, status, pre, raw_ids, stale, misused, world, dungeon>>

\* one turn: p = world.perceptions(), a = hero.next_action(p), world.do_action(a)
Turn ==
    /\ status = "running"
    /\ hero # None
    /\ hero[1].t < MaxTurns
    /\ \E o \in next_action([kb |-> kb] @@ [hero[1] EXCEPT !.calls = <<>>],
                             perceptions(dungeon[1]), overflow_checks[1], {}) :
          /\ kb' = o.hero.kb
          /\ hero' = Some([f \in DOMAIN hero[1] |-> o.hero[f]])
          /\ IF o.status = "running"
             THEN /\ dungeon' = Some(do_action(dungeon[1], o.ret).world)
                  /\ status' = do_action(dungeon[1], o.ret).status
                  /\ last' = [NoCall EXCEPT !.op = "next_action",
                                           !.arg = Some(perceptions(dungeon[1])),
                                           !.ret = Some(o.ret)]
             ELSE /\ status' = o.status
                  /\ last' = [NoCall EXCEPT !.op = "next_action",
                                           !.arg = Some(perceptions(dungeon[1]))]
                  /\ UNCHANGED dungeon
    /\ UNCHANGED <<pre, raw_ids, stale, misused, world, overflow_checks>>

(***************************************************************************)
(* Specifications                                                          *)
(***************************************************************************)
\* the methods of the encoder, with tell and ask, in any order
Next ==
    \/ \E clause \in ClauseInputs : Add(clause)
    \/ \E literal \in LiteralInputs : RegisterLiteral(literal)
    \/ \E clause \in ClauseInputs : RegisterClause(clause)
    \/ CreateRawVariable
    \/ AddRawClause
    \/ Snapshot
    \/ Rewind
    \/ \E formula \in EncoderTellInputs : Tell(formula)
    \/ \E formula \in AskInputs : Ask(formula)

Spec == Init /\ [][Next]_vars

\* interning into an encoder that starts fresh: register_literal and register_clause only
NextIntern ==
    \/ \E literal \in InternLiterals : RegisterLiteral(literal)
    \/ \E clause \in InternClauses : RegisterClause(clause)

SpecIntern == Init /\ [][NextIntern]_vars

\* telling formulas, also with an empty clause, with and without a pending snapshot
NextTell ==
    \/ \E formula \in TellInputs \cup EncoderTellInputs : Tell(formula)
    \/ \E literal \in LiteralInputs : RegisterLiteral(literal)
    \/ Snapshot
    \/ Rewind

SpecTell == Init /\ [][NextTell]_vars

\* building a clause store with named and nameless ids, and emitting it
NextEncode ==
    \/ \E clause \in EncodeClauses : Add(clause)
    \/ CreateRawVariable
    \/ AddRawClause
    \/ Encode

SpecEncode == Init /\ [][NextEncode]_vars

\* building a clause store with named and nameless ids, and decoding a model for it
NextDecode ==
    \/ \E clause \in EncodeClauses : Add(clause)
    \/ CreateRawVariable
    \/ \E output \in ModelOutputs(kb.counter) : DecodeModel(output)

SpecDecode == Init /\ [][NextDecode]_vars

\* init_kb of main.rs, statement by statement
NextMain ==
    \/ \E size \in DOMAIN main_init_kb_calls : MainInitKb(size)
    \/ InitKbClause
    \/ InitKbClauseAdd
    \/ InitKbClauseEnd
    \/ InitKbAdd

SpecMain == Init /\ [][NextMain]_vars

\* reading the verdict off the outputs a solver process may leave
NextOracle == \E output \in SolverOutputs : PicosatIsSat(output)

SpecOracle == Init /\ [][NextOracle]_vars

\* the knowledge base of a world: init_kb, then consistency, a perception and the moves
NextWorld ==
    \/ \E size \in WorldSizes : InitKb(size)
    \/ InitKbClause
    \/ InitKbClauseAdd
    \/ InitKbClauseEnd
    \/ InitKbAdd
    \/ WorldConsistency
    \/ /\ world # None
       /\ world[1].size \in ExploredSizes
       /\ \E p \in Perceptions(world[1].size) : TellPerception(p)
    \/ \E d \in DOMAIN Directions : AskMove(Directions[d])

SpecWorld == Init /\ [][NextWorld]_vars

\* a world on its own, given any sequence of actions
NextDungeon ==
    \/ \E input \in WorldInputs : WorldNew(input[1], input[2], board(input[1]))
    \/ \E action \in ActionInputs : DoAction(action)

SpecDungeon == Init /\ [][NextDungeon]_vars

\* the ways a process ends outside next_action: the oracle reads the output of the
\* solver, and a world of size 2 is given any action
NextExit ==
    \/ \E output \in {<<>>, s_SATISFIABLE} : PicosatIsSat(output)
    \/ \E input \in WorldInputs :
           input[1] = 2 /\ WorldNew(input[1], input[2], board(input[1]))
    \/ \E action \in ActionInputs : DoAction(action)

SpecExit == Init /\ [][NextExit]_vars

\* the run of a hero in a world: init_kb, World::new, Hero::new, and the turns
NextHero ==
    \/ \E size \in RunSizes : InitKb(size)
    \/ InitKbClause
    \/ InitKbClauseAdd
    \/ InitKbClauseEnd
    \/ InitKbAdd
    \/ /\ init_kb_returned
       /\ \E input \in WorldInputs :
              input[1] = world[1].size /\ WorldNew(input[1], input[2], RunDraws(input[1]))
    \/ HeroNew
    \/ Turn

SpecHero == Init /\ [][NextHero]_vars

\* the knowledge base as the agent uses it: tell, ask and consistency only
NextKB ==
    \/ \E formula \in TellInputs : Tell(formula)
    \/ \E formula \in Queries : Ask(formula)
    \/ Consistency

SpecKB == Init /\ [][NextKB]_vars


(***************************************************************************)
(* Truth tables over the domain variables, for the semantic claims.        *)
(***************************************************************************)
\* the literal over a domain variable holds when exactly the variables of M are true
holds(literal, M) == IF literal.pol = "Pos" THEN literal.v \in M ELSE literal.v \notin M

\* M satisfies every clause of the formula
satisfies(M, formula) ==
    \A i \in 1..Len(formula) : \E j \in 1..Len(formula[i]) : holds(formula[i][j], M)

\* M satisfies every stored clause of E, read through E's name-to-id map
models(M, E) ==
    LET ids == {E.map[x] : x \in M \cap DOMAIN E.map}
    IN  \A i \in 1..Len(E.clauses) : \E j \in 1..Len(E.clauses[i]) : holds(E.clauses[i][j], ids)

entails(E, formula) == \A M \in SUBSET Vars : models(M, E) => satisfies(M, formula)

kb_satisfiable(E) == \E M \in SUBSET Vars : models(M, E)

\* the clause handed to the oracle holds when exactly the ids of S are true
raw_satisfiable(E) ==
    \E S \in SUBSET (1..E.counter) :
        \A i \in 1..Len(E.clauses) : \E j \in 1..Len(E.clauses[i]) : holds(E.clauses[i][j], S)

\* the state of the encoder that encode() shows
same_encoder(E, F) == E.counter = F.counter /\ E.clauses = F.clauses /\ E.map = F.map

(***************************************************************************)
(* Claims                                                                  *)
(***************************************************************************)
\* C1: ask is a pure query: whenever ask returns on a knowledge base with no pending
\* snapshot, counter, stored clauses and name-to-id map are what they were before the
\* call, for every formula, also one that mentions variables not yet interned.
C1_AskPurity ==
    [][(last'.op = "ask" /\ kb.snapshot = None /\ status' = "running")
          => same_encoder(kb', kb) /\ encode(kb') = encode(kb)]_vars

C1_Witness ==
    /\ last.op = "ask" /\ last.n = 2 /\ last.fresh
    /\ kb.clauses # <<>> /\ kb.counter > 0

\* C3: refutation is sound and complete: for every formula with at least one clause,
\* ask returns true exactly when every assignment of the domain variables that
\* satisfies all stored clauses satisfies every clause of the formula.
C3_AskIsEntailment ==
    \A formula \in Queries :
        Len(formula) >= 1 =>
            \A out \in ask(kb, formula) : out.result = entails(kb, formula)

C3_Witness ==
    /\ last.op = "ask" /\ last.n = 2 /\ last.result /\ ~last.empty_clause
    /\ kb_satisfiable(kb)

\* C4: for a formula of two or more clauses, what ask hands to the oracle is the
\* stored clauses, then for each clause Ci with its auxiliary ti the clauses
\* {not a, not ti} for every literal a of Ci and the clause Ci + {ti}, then the clause
\* {t1..tn}; it is satisfiable exactly when the knowledge base and the negation of the
\* formula are; every ti differs from every id of a stored clause, from the id of
\* every variable of the formula and from every other tj.
C4_TseytinEquivalence ==
    \A formula \in Queries :
        Len(formula) >= 2 =>
            LET G == ask_refutation(kb, formula)
                n == Len(formula)
                last_clause == G.clauses[Len(G.clauses)]
                t(i) == last_clause[i].v
                lits(i) == Len(formula[i])
                \* the number of clauses emitted for the first k clauses of the formula
                emitted[k \in 0..n] == IF k = 0 THEN 0 ELSE emitted[k - 1] + lits(k) + 1
                \* index in G.clauses of the first clause emitted for formula[i]
                start(i) == Len(kb.clauses) + emitted[i - 1] + 1
            IN  /\ Len(G.clauses) = Len(kb.clauses) + emitted[n] + 1
                /\ SubSeq(G.clauses, 1, Len(kb.clauses)) = kb.clauses
                /\ Len(last_clause) = n
                /\ \A i \in 1..n : last_clause[i].pol = "Pos"
                /\ \A i \in 1..n :
                      /\ \A j \in 1..lits(i) :
                            G.clauses[start(i) + j - 1] =
                                <<literal_map(not(formula[i][j]), G.map), Neg(t(i))>>
                      /\ G.clauses[start(i) + lits(i)] =
                            [j \in 1..lits(i) |-> literal_map(formula[i][j], G.map)]
                                \o <<Pos(t(i))>>
                /\ raw_satisfiable(G) =
                      (\E M \in SUBSET Vars : models(M, kb) /\ ~satisfies(M, formula))
                /\ Cardinality({t(i) : i \in 1..n}) = n
                /\ \A i \in 1..n :
                      /\ t(i) \notin UNION {clause_ids(kb.clauses[c]) : c \in 1..Len(kb.clauses)}
                      /\ t(i) \notin {G.map[x] : x \in DOMAIN G.map}

C4_Witness ==
    /\ last.op = "ask" /\ last.n = 2 /\ last.fresh /\ ~last.result
    /\ kb_satisfiable(kb) /\ kb.clauses # <<>>

\* C5: ask of the formula with no clause returns false on every knowledge base, also
\* an unsatisfiable one, without a call of the oracle, and leaves the knowledge base
\* as it was with no snapshot pending.
C5_EmptyFormula ==
    [][(last'.op = "ask" /\ last'.n = 0 /\ status' = "running")
          => /\ ~last'.result
             /\ ~last'.oracle
             /\ kb' = kb
             /\ kb'.snapshot = None]_vars

C5_Witness == last.op = "ask" /\ last.n = 0 /\ ~kb_satisfiable(kb)

\* C6: when the formula has a clause with no literal, ask returns true exactly when
\* the knowledge base is unsatisfiable, on the single-clause path and on the Tseytin
\* path alike.
C6_EmptyClause ==
    [][(last'.op = "ask" /\ last'.empty_clause /\ status' = "running")
          => last'.result = ~kb_satisfiable(kb)]_vars

C6_Witness ==
    /\ last.op = "ask" /\ last.n = 2 /\ last.empty_clause /\ last.fresh /\ last.result

\* C7: in every sequence of tell, ask and consistency on a knowledge base that starts
\* without a snapshot, no snapshot is pending between two calls and the assertion of
\* snapshot() inside ask never fires.
C7_NoSnapshotLeak == kb.snapshot = None /\ status = "running"

C7_Witness ==
    /\ last.op = "ask" /\ last.n = 1 /\ ~last.result /\ ~last.empty_clause
    /\ kb.clauses # <<>>


\* C2: snapshot(), then any calls of add, register_literal, register_clause,
\* create_raw_variable, add_raw_clause and tell, then rewind() give back the counter,
\* the stored clauses and the name-to-id map of the encoder the snapshot was taken of,
\* hence the same encode(), with no snapshot pending.
C2_RewindReversibility ==
    [][(last'.op = "rewind" /\ status' = "running")
          => /\ pre # None
             /\ same_encoder(kb', pre[1])
             /\ encode(kb') = encode(pre[1])
             /\ kb'.snapshot = None]_vars

C2_Witness ==
    /\ last.op = "rewind" /\ status = "running"
    /\ last.n >= 1 /\ last.fresh /\ stale # {}
    /\ kb.clauses # <<>> /\ kb.counter > 0

\* C8: snapshot() fails exactly when a snapshot is pending and rewind() fails exactly
\* when none is; a call that does not fail takes, respectively clears, the snapshot.
C8_SnapshotMisuse ==
    [][/\ last'.op = "snapshot" =>
             /\ (status' = "panicked") = (kb.snapshot # None)
             /\ status' = "running" => kb'.snapshot # None
       /\ last'.op = "rewind" =>
             /\ (status' = "panicked") = (kb.snapshot = None)
             /\ status' = "running" => kb'.snapshot = None]_vars

C8_Witness == status = "panicked" /\ last.op = "snapshot" /\ kb.snapshot # None

\* every literal of every stored clause has an id in 1..counter
ids_allocated(E) ==
    \A i \in 1..Len(E.clauses) : clause_ids(E.clauses[i]) \subseteq 1..E.counter

\* C9, as stated: in every state reached by add, register_literal, create_raw_variable,
\* add_raw_clause of ids the encoder returned earlier, snapshot, rewind, tell and ask,
\* every literal of every stored clause has an id in 1..counter.
C9_AllocatedIds == ids_allocated(kb)

\* C9, amended: as long as add_raw_clause has only been given ids that lay in
\* 1..counter when it was called, every literal of every stored clause has an id in
\* 1..counter.
C9_AllocatedIdsKept == ~misused => ids_allocated(kb)

C9_Witness ==
    /\ last.op = "add_raw_clause" /\ stale # {} /\ ~misused
    /\ Len(kb.clauses) >= 2 /\ raw_ids # {}

\* C10: the name-to-id map is injective, every mapped id lies in 1..counter, and no
\* mapped id is a live id of create_raw_variable, also for names interned after a
\* rewind that discarded names and raw ids.
C10_NameTable ==
    /\ \A x, y \in DOMAIN kb.map : kb.map[x] = kb.map[y] => x = y
    /\ \A x \in DOMAIN kb.map : kb.map[x] \in 1..kb.counter /\ kb.map[x] \notin raw_ids
    /\ raw_ids \subseteq 1..kb.counter

C10_Witness ==
    /\ last.op = "register_literal" /\ last.reuse
    /\ raw_ids # {} /\ Cardinality(DOMAIN kb.map) >= 2

\* the variables of a clause that E does not know, each once, in the order the clause
\* first mentions them
RECURSIVE first_seen(_, _)
first_seen(known, clause) ==
    IF clause = <<>>
    THEN <<>>
    ELSE IF inner(Head(clause)) \in known
         THEN first_seen(known, Tail(clause))
         ELSE <<inner(Head(clause))>> \o first_seen(known \cup {inner(Head(clause))}, Tail(clause))

\* C11: on an encoder that starts fresh, interning gives the variables the ids 1..N in
\* the order they are first seen: a new variable gets the id N+1 after N variables, a
\* known variable gets the id it has and leaves the counter alone, no binding ever
\* changes, and the literal returned has the polarity of the literal given.
C11_MonotonicIntern ==
    [][last'.op \in {"register_literal", "register_clause"} =>
          LET N == Cardinality(DOMAIN kb.map)
              given == IF last'.op = "register_literal" THEN <<last'.arg[1]>> ELSE last'.arg[1]
              returned == IF last'.op = "register_literal" THEN <<last'.ret[1]>> ELSE last'.ret[1]
              new_names == first_seen(DOMAIN kb.map, given)
          IN  /\ kb.counter = N
              /\ {kb.map[x] : x \in DOMAIN kb.map} = 1..N
              /\ DOMAIN kb'.map = DOMAIN kb.map \cup SeqRange(new_names)
              /\ \A x \in DOMAIN kb.map : kb'.map[x] = kb.map[x]
              /\ \A i \in 1..Len(new_names) : kb'.map[new_names[i]] = N + i
              /\ kb'.counter = N + Len(new_names)
              /\ Len(returned) = Len(given)
              /\ \A j \in 1..Len(given) :
                    /\ returned[j].pol = given[j].pol
                    /\ returned[j].v = kb'.map[given[j].v]]_vars

\* a known variable is interned again, negated, after all variables have been interned
\* in an order that is not the alphabetical one
C11_Witness ==
    /\ last.op = "register_literal"
    /\ last.arg[1].pol = "Neg" /\ last.ret[1].v < kb.counter
    /\ DOMAIN kb.map = InternVars /\ kb.map["D"] < kb.map["A"]

\* C12: tell(phi) appends one stored clause per clause of phi, in phi's order, after
\* the clauses already stored; it changes no stored clause and no name-to-id binding,
\* never lowers the counter, and neither takes nor clears a snapshot.
C12_TellMonotonic ==
    [][last'.op = "tell" =>
          LET formula == last'.arg[1]
              T == kb'
              n == Len(kb.clauses)
          IN  /\ Len(T.clauses) = n + Len(formula)
              /\ SubSeq(T.clauses, 1, n) = kb.clauses
              /\ \A i \in 1..Len(formula) :
                    T.clauses[n + i] =
                        [j \in 1..Len(formula[i]) |-> literal_map(formula[i][j], T.map)]
              /\ \A x \in DOMAIN kb.map : x \in DOMAIN T.map /\ T.map[x] = kb.map[x]
              /\ T.counter >= kb.counter
              /\ (T.snapshot = None) = (kb.snapshot = None)
              /\ kb.snapshot # None =>
                    /\ T.snapshot[1].last_var_counter = kb.snapshot[1].last_var_counter
                    /\ T.snapshot[1].last_len_clauses = kb.snapshot[1].last_len_clauses]_vars

\* tell has stored its clauses while a snapshot was pending, interning one new variable
\* next to one known since before the snapshot
C12_Witness ==
    /\ last.op = "tell" /\ Len(last.arg[1]) = 2
    /\ kb.snapshot # None /\ kb.snapshot[1].new_vars = <<"B">>
    /\ Cardinality(DOMAIN kb.map) = 2 /\ Len(kb.clauses) = 2

\* the pieces of a text between the occurrences of the character sep
split(chars, sep) ==
    LET cuts == {0} \cup {i \in 1..Len(chars) : chars[i] = sep} \cup {Len(chars) + 1}
        cut(k) == CHOOSE i \in cuts : Cardinality({j \in cuts : j < i}) = k - 1
    IN  [k \in 1..(Cardinality(cuts) - 1) |-> SubSeq(chars, cut(k) + 1, cut(k + 1) - 1)]

\* the token is the decimal numeral of n: digits only, no leading zero, a leading '-'
\* exactly when n is negative
RECURSIVE is_numeral(_, _)
is_numeral(token, n) ==
    LET digits == <<"0", "1", "2", "3", "4", "5", "6", "7", "8", "9">>
    IN  IF n < 0
        THEN token # <<>> /\ Head(token) = "-" /\ is_numeral(Tail(token), 0 - n)
        ELSE /\ token # <<>>
             /\ token[Len(token)] = digits[(n % 10) + 1]
             /\ IF n < 10
                THEN Len(token) = 1
                ELSE is_numeral(SubSeq(token, 1, Len(token) - 1), n \div 10)

signed_id(literal) == IF literal.pol = "Pos" THEN literal.v ELSE 0 - literal.v

\* C13: the text encode() returns is the line 'p cnf <counter> <number of clauses>'
\* and then one line per stored clause, in the order stored; the line of a clause lists
\* its literals in order as signed decimal ids, negative for Neg, and then 0, with one
\* space between two tokens; every line ends with a newline.
C13_DimacsEmission ==
    last.op = "encode" =>
        LET text == last.ret[1].encoding
            pieces == split(text, "\n")
            n == Len(kb.clauses)
        IN  /\ Len(pieces) = n + 2
            /\ pieces[n + 2] = <<>>
            /\ LET tokens == split(pieces[1], " ")
               IN  /\ Len(tokens) = 4
                   /\ tokens[1] = <<"p">>
                   /\ tokens[2] = <<"c", "n", "f">>
                   /\ is_numeral(tokens[3], kb.counter)
                   /\ is_numeral(tokens[4], n)
            /\ \A i \in 1..n :
                  LET tokens == split(pieces[i + 1], " ")
                      clause == kb.clauses[i]
                  IN  /\ Len(tokens) = Len(clause) + 1
                      /\ \A j \in 1..Len(clause) : is_numeral(tokens[j], signed_id(clause[j]))
                      /\ tokens[Len(clause) + 1] = <<"0">>

\* the text emitted has a clause of ten literals with a negative two-digit id, and a
\* clause with no literal
C13_Witness ==
    /\ last.op = "encode"
    /\ Len(kb.clauses) = 2 /\ kb.clauses[2] = <<>>
    /\ Len(kb.clauses[1]) = 10 /\ kb.clauses[1][10] = Neg(11)

\* C14: the name table encode() returns holds every interned variable with id i at
\* index i-1 (position i of the sequence, which counts from 1), also when
\* create_raw_variable has allocated nameless ids below the id of a variable.
C14_NameTableIndex ==
    last.op = "encode" =>
        LET variables == last.ret[1].variables
        IN  \A x \in DOMAIN kb.map :
                kb.map[x] <= Len(variables) /\ variables[kb.map[x]] = x

\* the line is the text wanted with nothing but whitespace before and after it
is_padded(line, wanted) ==
    \E i, j \in 0..Len(line) :
        /\ i + j <= Len(line)
        /\ SubSeq(line, i + 1, Len(line) - j) = wanted
        /\ \A k \in (1..i) \cup ((Len(line) - j + 1)..Len(line)) :
              line[k] \in {" ", "\t", "\r"}

\* C15, as stated: on an output that is not empty the verdict is SAT when some line,
\* wherever it is, is 's SATISFIABLE' (whitespace before and after it apart), and UNSAT
\* otherwise.
C15_VerdictAnyLine ==
    (last.op = "picosat_is_sat" /\ last.arg[1] # <<>>) =>
        LET lines == split(last.arg[1], "\n")
        IN  /\ status = "running"
            /\ last.ret[1] = (\E k \in 1..Len(lines) : is_padded(lines[k], s_SATISFIABLE))

\* C15, amended: on an output that is not empty the verdict is SAT when the first line,
\* whitespace before and after it apart, is 's SATISFIABLE', and UNSAT for any other
\* first line, whatever the later lines are; on the empty output the call fails.
C15_VerdictFirstLine ==
    last.op = "picosat_is_sat" =>
        LET output == last.arg[1]
        IN  IF output = <<>>
            THEN status = "panicked"
            ELSE /\ status = "running"
                 /\ last.ret[1] = is_padded(split(output, "\n")[1], s_SATISFIABLE)

\* the verdict is UNSAT on an output whose second line is 's SATISFIABLE'
C15_Witness ==
    /\ last.op = "picosat_is_sat" /\ status = "running"
    /\ last.ret = Some(FALSE)
    /\ LET lines == split(last.arg[1], "\n")
       IN  Len(lines) >= 3 /\ lines[1] = <<"c">> /\ lines[2] = s_SATISFIABLE


(***************************************************************************)
(* The world theory                                                        *)
(***************************************************************************)
\* the cells of the size x size grid
Grid(size) == {Position_new(x, y) : x \in 0..(size - 1), y \in 0..(size - 1)}

\* the two cells are 4-neighbours
adjacent(a, b) ==
    \/ a.x = b.x /\ (a.y = b.y + 1 \/ b.y = a.y + 1)
    \/ a.y = b.y /\ (a.x = b.x + 1 \/ b.x = a.x + 1)

\* the stored clauses of the encoder, each the set of its literals over ids
stored_clauses(E) == {{E.clauses[i][j] : j \in 1..Len(E.clauses[i])} : i \in 1..Len(E.clauses)}

\* the clause of these literals over Var is among the clauses
has_clause(E, clauses, literals) ==
    /\ \A l \in literals : l.v \in DOMAIN E.map
    /\ {literal_map(l, E.map) : l \in literals} \in clauses

\* the stored clauses of the encoder, each the set of its signed ids
signed_clauses(E) == {{signed_id(l) : l \in c} : c \in stored_clauses(E)}

\* no model of the clauses makes every one of these literals over Var true
excludes(E, signed, literals) ==
    ~dpll(signed \cup {{signed_id(literal_map(l, E.map))} : l \in literals})

\* init_kb has just returned its knowledge base
InitKbDone == init_kb_returned /\ last.op = "init_kb"

\* the cell a comes before the cell b in the order of the loops over the grid
before(a, b) == a.x < b.x \/ (a.x = b.x /\ a.y < b.y)

\* C16: the knowledge base init_kb(N) returns, for N = 1..6, holds the clause of all
\* N*N positive Wumpus literals, the clause of all N*N positive Gold literals and, for
\* every two distinct cells a and b, the clauses (not Wumpus(a) or not Wumpus(b)) and
\* (not Gold(a) or not Gold(b)); and no model of it has no Wumpus cell, no Gold cell,
\* two Wumpus cells or two Gold cells.
C16_Uniqueness ==
    InitKbDone =>
        LET G == Grid(world[1].size)
            clauses == stored_clauses(kb)
            signed == signed_clauses(kb)
        IN  /\ has_clause(kb, clauses, {Pos(Wumpus(c)) : c \in G})
            /\ has_clause(kb, clauses, {Pos(Gold(c)) : c \in G})
            /\ \A a \in G : \A b \in {c \in G : before(a, c)} :
                  /\ has_clause(kb, clauses, {Neg(Wumpus(a)), Neg(Wumpus(b))})
                  /\ has_clause(kb, clauses, {Neg(Gold(a)), Neg(Gold(b))})
                  /\ excludes(kb, signed, {Pos(Wumpus(a)), Pos(Wumpus(b))})
                  /\ excludes(kb, signed, {Pos(Gold(a)), Pos(Gold(b))})
            /\ excludes(kb, signed, {Neg(Wumpus(c)) : c \in G})
            /\ excludes(kb, signed, {Neg(Gold(c)) : c \in G})

\* init_kb(2) has returned, and its knowledge base has a model: the Wumpus at (1,1)
\* and the gold at (0,0)
C16_Witness ==
    /\ InitKbDone /\ world[1].size = 2
    /\ ~excludes(kb, signed_clauses(kb),
                 {Pos(Wumpus(Position_new(1, 1))), Pos(Gold(Position_new(0, 0)))})

\* C17: in the knowledge base init_kb(N) returns, for every cell c of the grid and
\* every cell n of the grid that is a 4-neighbour of c, the clauses
\* (not Pit(n) or Breeze(c)) and (not Wumpus(n) or Stench(c)) are stored, and so are the
\* clause of not Breeze(c) with Pit(n) for exactly these n and the clause of
\* not Stench(c) with Wumpus(n) for exactly these n; and no model makes Breeze(c) differ
\* from 'some neighbour has a pit' or Stench(c) from 'some neighbour has the Wumpus'.
C17_Physics ==
    InitKbDone =>
        LET G == Grid(world[1].size)
            clauses == stored_clauses(kb)
            signed == signed_clauses(kb)
        IN  \A c \in G :
                LET around == {n \in G : adjacent(c, n)}
                IN  /\ \A n \in around :
                          /\ has_clause(kb, clauses, {Neg(Pit(n)), Pos(Breeze(c))})
                          /\ has_clause(kb, clauses, {Neg(Wumpus(n)), Pos(Stench(c))})
                          /\ excludes(kb, signed, {Pos(Pit(n)), Neg(Breeze(c))})
                          /\ excludes(kb, signed, {Pos(Wumpus(n)), Neg(Stench(c))})
                    /\ has_clause(kb, clauses, {Neg(Breeze(c))} \cup {Pos(Pit(n)) : n \in around})
                    /\ has_clause(kb, clauses, {Neg(Stench(c))} \cup {Pos(Wumpus(n)) : n \in around})
                    /\ excludes(kb, signed, {Pos(Breeze(c))} \cup {Neg(Pit(n)) : n \in around})
                    /\ excludes(kb, signed, {Pos(Stench(c))} \cup {Neg(Wumpus(n)) : n \in around})

\* init_kb(3) has returned: the centre cell has four neighbours and a corner has two,
\* and a model has a pit next to the centre
C17_Witness ==
    /\ InitKbDone /\ world[1].size = 3
    /\ Cardinality({n \in Grid(3) : adjacent(Position_new(1, 1), n)}) = 4
    /\ Cardinality({n \in Grid(3) : adjacent(Position_new(0, 0), n)}) = 2
    /\ ~excludes(kb, signed_clauses(kb),
                 {Pos(Pit(Position_new(1, 0))), Pos(Breeze(Position_new(1, 1)))})

\* C18: the knowledge base init_kb(N) returns stores the unit clause Safe(0,0) and,
\* for every cell c, the clauses (Safe(c) or Wumpus(c) or Pit(c)),
\* (not Safe(c) or not Pit(c)) and (not Safe(c) or not Wumpus(c)); and no model makes
\* Safe(c) differ from 'c has neither the Wumpus nor a pit', or puts the Wumpus or a
\* pit at (0,0).
C18_Safety ==
    InitKbDone =>
        LET G == Grid(world[1].size)
            clauses == stored_clauses(kb)
            signed == signed_clauses(kb)
            start == Position_new(0, 0)
        IN  /\ has_clause(kb, clauses, {Pos(Safe(start))})
            /\ excludes(kb, signed, {Pos(Wumpus(start))})
            /\ excludes(kb, signed, {Pos(Pit(start))})
            /\ \A c \in G :
                  /\ has_clause(kb, clauses, {Pos(Safe(c)), Pos(Wumpus(c)), Pos(Pit(c))})
                  /\ has_clause(kb, clauses, {Neg(Safe(c)), Neg(Pit(c))})
                  /\ has_clause(kb, clauses, {Neg(Safe(c)), Neg(Wumpus(c))})
                  /\ excludes(kb, signed, {Pos(Safe(c)), Pos(Pit(c))})
                  /\ excludes(kb, signed, {Pos(Safe(c)), Pos(Wumpus(c))})
                  /\ excludes(kb, signed, {Neg(Safe(c)), Neg(Wumpus(c)), Neg(Pit(c))})

\* init_kb(2) has returned, and its knowledge base has a model where (0,1) is not safe
\* and a model where it is
C18_Witness ==
    /\ InitKbDone /\ world[1].size = 2
    /\ ~excludes(kb, signed_clauses(kb), {Neg(Safe(Position_new(0, 1)))})
    /\ ~excludes(kb, signed_clauses(kb), {Pos(Safe(Position_new(0, 1)))})

\* C19: consistency() on the knowledge base init_kb(N) returned, before anything is
\* told to it, returns true for N = 2..6.
C19_Consistent ==
    (/\ init_kb_returned /\ world[1].told = None
     /\ world[1].size \in 2..6
     /\ last.op = "consistency")
        => (status = "running" /\ last.oracle /\ last.result)

\* consistency() has returned true on the knowledge base of init_kb(3)
C19_Witness ==
    /\ init_kb_returned /\ world[1].told = None
    /\ world[1].size = 3
    /\ last.op = "consistency" /\ last.result

\* the knowledge base of init_kb has been told a perception of neither breeze nor stench
ToldQuiet ==
    /\ init_kb_returned /\ world[1].size >= 2
    /\ world[1].told # None
    /\ ~world[1].told[1].breeze /\ ~world[1].told[1].stench

\* C20: once the knowledge base init_kb(N) returned, N >= 2, has been told not Breeze(c)
\* and not Stench(c) for a cell c, ask({{Safe(n)}}) returns true for every cell n of
\* the grid that is a 4-neighbour of c: as the next call, for each such n, and whenever
\* it is called later.
C20_SafeNeighbours ==
    ToldQuiet =>
        LET c == world[1].told[1].position
            around == {n \in Grid(world[1].size) : adjacent(c, n)}
        IN  /\ last.op = "tell" =>
                  \A n \in around : \A out \in ask(kb, <<<<Pos(Safe(n))>>>>) : out.result
            /\ last.op = "ask" =>
                  /\ \E n \in around : last.arg = Some(<<<<Pos(Safe(n))>>>>)
                  /\ last.oracle /\ last.result

\* on the 2x2 theory told not Breeze((0,0)) and not Stench((0,0)), ask({{Safe((0,1))}})
\* has returned true, and ask({{Safe((1,0))}}) returns true as well
C20_Witness ==
    /\ ToldQuiet /\ world[1].size = 2
    /\ world[1].told[1].position = Position_new(0, 0)
    /\ last.op = "ask" /\ last.result
    /\ last.arg = Some(<<<<Pos(Safe(Position_new(0, 1)))>>>>)
    /\ \A out \in ask(kb, <<<<Pos(Safe(Position_new(1, 0)))>>>>) : out.result

\* the knowledge base of init_kb has just been told the ground truth of a perception
ToldPerception ==
    /\ init_kb_returned
    /\ world[1].told # None
    /\ last.op = "tell"

\* C21: for a perception at the cell c, the formula told to the knowledge base has unit
\* clauses only: Breeze(c) if breeze is perceived and not Breeze(c) otherwise, Stench(c)
\* if stench is perceived and not Stench(c) otherwise, Gold(c) when glitter is perceived,
\* and no clause about Gold(c) when it is not; no other clause is told, and the knowledge
\* base stores each of them.
C21_PerceptTranslation ==
    ToldPerception =>
        LET p == world[1].told[1]
            c == p.position
            formula == last.arg[1]
            told == {formula[i] : i \in 1..Len(formula)}
        IN  /\ \A clause \in told : Len(clause) = 1
            /\ told = {<<IF p.breeze THEN Pos(Breeze(c)) ELSE Neg(Breeze(c))>>,
                       <<IF p.stench THEN Pos(Stench(c)) ELSE Neg(Stench(c))>>}
                          \cup (IF p.glitter THEN {<<Pos(Gold(c))>>} ELSE {})
            /\ ~p.glitter => \A clause \in told : \A j \in 1..Len(clause) :
                                 inner(clause[j]) # Gold(c)
            /\ \A clause \in told :
                  has_clause(kb, stored_clauses(kb), {clause[j] : j \in 1..Len(clause)})

\* the 2x2 knowledge base has been told a perception at (1,0) with breeze and glitter and
\* without stench
C21_Witness ==
    /\ ToldPerception
    /\ world[1].size = 2
    /\ world[1].told[1].breeze /\ world[1].told[1].glitter /\ ~world[1].told[1].stench
    /\ world[1].told[1].position = Position_new(1, 0)
    /\ last.arg[1] = <<<<Pos(Breeze(Position_new(1, 0)))>>, <<Pos(Gold(Position_new(1, 0)))>>,
                       <<Neg(Stench(Position_new(1, 0)))>>>>

(***************************************************************************)
(* The world's contract                                                    *)
(***************************************************************************)
\* do_action(Grab) is called on a running world
GrabStep ==
    /\ status = "running" /\ dungeon # None
    /\ last'.op = "do_action" /\ last'.arg = Some(Grab)

\* C29: for every world state, do_action(Grab) when the hero's cell does not hold the
\* gold, an empty cell included, ends the run with a fatal error (exit code 1) and does
\* not mark the gold as taken; a Grab on the gold cell clears the cell and marks the gold
\* as taken, and the run goes on.
C29_GrabWithoutGold ==
    [][GrabStep =>
          LET W == dungeon[1]
              x == W.hero_pos.x
              y == W.hero_pos.y
          IN  IF there_is_gold(W, x, y)
              THEN /\ status' = "running"
                   /\ ~dungeon'[1].gold_in_dungeon
                   /\ dungeon'[1].dungeon[y + 1][x + 1] = None
              ELSE /\ status' = "exit(1)"
                   /\ dungeon'[1].gold_in_dungeon = W.gold_in_dungeon]_vars

(***************************************************************************)
(* The run of the hero                                                     *)
(***************************************************************************)
\* next_action has just been called in a run
TurnDone == hero # None /\ last.op = "next_action"

\* next_action has just returned the action a, which do_action then took
Returns(a) == TurnDone /\ last.ret = Some(a)

\* the calls of the turn, in their order, that satisfy the test
turn_calls(op) == SelectSeq(hero[1].calls, LAMBDA call : call.op = op)

\* C22: every Move(d) that next_action returns at the position p targets a cell of the
\* board that is in the safe cache of the hero and that holds neither a pit nor the
\* Wumpus in the world, so that the move does not end the run.
C22_NoStepOnHazard ==
    \A d \in DOMAIN Directions :
        Returns(Move(Directions[d])) =>
            LET p == last.arg[1].position
                target == move_clone(p, Directions[d])
            IN  /\ target \in board(last.arg[1].board_size)
                /\ target \in hero[1].cache.safe
                /\ ~there_is_a_pit(dungeon[1], target.x, target.y)
                /\ ~there_is_the_wumpus(dungeon[1], target.x, target.y)
                /\ dungeon[1].hero_pos = target
                /\ status = "running"

\* C22 witness: next_action has returned a move at a cell where stench or breeze is
\* perceived, so that a cell next to it holds a hazard, and the run goes on.
C22_Witness ==
    /\ \E d \in DOMAIN Directions : Returns(Move(Directions[d]))
    /\ last.arg[1].stench \/ last.arg[1].breeze
    /\ status = "running"

\* C23: the consistency check of every call of next_action succeeds, the re-entrant
\* calls included, and the knowledge base a turn leaves is satisfiable: no tell of the
\* hero (percept facts, Safe, Wumpus-or-Pit, Wumpus, Pit) makes it inconsistent.
C23_KbStaysConsistent ==
    TurnDone =>
        /\ \A i \in 1..Len(hero[1].calls) :
              hero[1].calls[i].op = "consistency" => hero[1].calls[i].result
        /\ \A verdict \in consistency(kb) : verdict

\* C23 witness: a turn in which next_action entered itself again, so that the
\* perception was told twice, and both consistency checks succeeded.
C23_Witness ==
    /\ TurnDone
    /\ Len(turn_calls("consistency")) = 2
    /\ Len(turn_calls("tell")) >= 2
    /\ \A i \in 1..2 : turn_calls("consistency")[i].result
    /\ turn_calls("tell")[1].arg = create_ground_truth_from_perception(last.arg[1])
    /\ turn_calls("tell")[Len(turn_calls("tell"))].arg
           = create_ground_truth_from_perception(last.arg[1])

\* C24: the objective starts as TakeGold; it becomes GoHome only in a turn in which
\* glitter is perceived or in which the planner found no plan to a safe cell not yet
\* visited; and once it is GoHome it stays GoHome.
C24_ObjectiveMachine ==
    [][/\ (hero = None /\ hero' # None) => hero'[1].obj = "TakeGold"
       /\ (hero # None /\ hero' # None) =>
             /\ hero[1].obj = "GoHome" => hero'[1].obj = "GoHome"
             /\ (hero[1].obj = "TakeGold" /\ hero'[1].obj = "GoHome") =>
                   /\ last'.op = "next_action"
                   /\ \/ last'.arg[1].glitter
                      \/ \E i \in 1..Len(hero'[1].calls) :
                            /\ hero'[1].calls[i].op = "create_plan_gold"
                            /\ ~hero'[1].calls[i].result]_vars

\* C24 witness: a turn without glitter in which the planner found no plan to a safe
\* cell not yet visited, and which left the objective GoHome.
C24_Witness ==
    /\ TurnDone
    /\ ~last.arg[1].glitter
    /\ hero[1].obj = "GoHome"
    /\ \E i \in 1..Len(hero[1].calls) :
          /\ hero[1].calls[i].op = "create_plan_gold"
          /\ ~hero[1].calls[i].result

\* C25: every Exit that next_action returns is returned when the perceived position is
\* (0,0) and the objective is GoHome.
C25_ExitDiscipline ==
    Returns(Exit) =>
        /\ last.arg[1].position = Position_new(0, 0)
        /\ hero[1].obj = "GoHome"

\* C25 witness: next_action has returned Exit to a hero that was away from (0,0), took
\* the gold and came back, and the process has exited with success.
C25_Witness ==
    /\ Returns(Exit)
    /\ last.arg[1].position = Position_new(0, 0)
    /\ hero[1].obj = "GoHome"
    /\ ~dungeon[1].gold_in_dungeon
    /\ status = "exit(0)"

\* the cells that can be reached from the cells of from by steps between 4-neighbours
\* inside the set within
RECURSIVE connected_to(_, _)
connected_to(from, within) ==
    LET more == {c \in within \ from : \E f \in from : adjacent(c, f)}
    IN  IF more = {} THEN from ELSE connected_to(from \cup more, within)

\* the messages of the assertions about the plan to go home: the two of next_action
\* and the one of utility_go_home
GoHomeAssertions ==
    {"assert!(self.create_plan(p.position))", "assert!(self.obj != Objective::GoHome)",
     "assert!(self.plan.is_some())"}

\* C26: in every turn the visited cells are all in the safe cache, include (0,0) and
\* the current position, and are 4-connected; so whenever the objective is GoHome the
\* planner over the safe cache finds a plan from the position to (0,0), and neither
\* assertion about the go-home plan fails.
C26_WayHome ==
    TurnDone =>
        LET p == last.arg[1].position
            cache == hero[1].cache
        IN  /\ cache.visited \subseteq cache.safe
            /\ Position_new(0, 0) \in cache.visited
            /\ p \in cache.visited
            /\ connected_to({p}, cache.visited) = cache.visited
            /\ hero[1].obj = "GoHome" =>
                  search(cache, hero[1].size_map, p, {Position_new(0, 0)}) # {None}
            /\ \A i \in 1..Len(hero[1].calls) :
                  hero[1].calls[i].op = "panic" => hero[1].calls[i].arg \notin GoHomeAssertions

\* C26 witness: a turn under GoHome at a cell two steps or more from (0,0) in which
\* create_plan_to_go_home found a plan.
C26_Witness ==
    /\ TurnDone
    /\ hero[1].obj = "GoHome"
    /\ distance_to_zero(last.arg[1].position) >= 2
    /\ \E i \in 1..Len(hero[1].calls) :
          /\ hero[1].calls[i].op = "create_plan_to_go_home"
          /\ hero[1].calls[i].result
    /\ status = "running"

\* C30: every formula that is_safe tells the knowledge base was the argument of the
\* call of the knowledge base just before that tell, an ask that returned true.  (The
\* tell that follows a consistency check is the one of the perception.)
C30_ProveThenTell ==
    TurnDone =>
        \A i \in 1..Len(hero[1].calls) :
            (hero[1].calls[i].op = "tell" /\ (i = 1 \/ hero[1].calls[i - 1].op # "consistency"))
                => \E j \in 1..(i - 1) :
                      /\ hero[1].calls[j].op = "ask"
                      /\ hero[1].calls[j].arg = hero[1].calls[i].arg
                      /\ hero[1].calls[j].result
                      /\ \A k \in (j + 1)..(i - 1) :
                            hero[1].calls[k].op \notin {"tell", "ask", "consistency"}

\* C27: every run ends with next_action returning Exit at (0,0); so a run that has
\* stopped has stopped in a turn in which next_action returned Exit at (0,0).
C27_RunEndsWithExit ==
    (hero # None /\ status # "running") =>
        /\ Returns(Exit)
        /\ last.arg[1].position = Position_new(0, 0)
        /\ status = "exit(0)"

\* C28: a fatal error ends the process with exit code 1, a successful Exit with exit
\* code 0: the oracle that cannot read the output of the solver exits with 1, the
\* hero that dies on a pit or on the Wumpus exits with 1, Exit outside (0,0) exits
\* with 1, and Exit at (0,0) exits with 0, with or without the gold.
C28_FatalExitCodes ==
    /\ (last.op = "picosat_is_sat" /\ status # "running") => exit_code(status) = 1
    /\ (last.op = "do_action" /\ last.arg = Some(Exit)) =>
          exit_code(status) = IF dungeon[1].hero_pos = Position_new(0, 0) THEN 0 ELSE 1
    /\ (last.op = "do_action" /\ status # "panicked" /\ hero_is_dead(dungeon[1])) =>
          exit_code(status) = 1

\* how deep the loops of is_safe around an unsafe cell are nested after the first n
\* entries of the history of the turn
requery_depth(n) ==
    Cardinality({i \in 1..n : hero[1].calls[i].op = "requery"})
        - Cardinality({i \in 1..n : hero[1].calls[i].op = "requery_end"})

\* C31: the calls of is_safe on the neighbours of an unsafe cell and of the origin are
\* depth 1: a cell found unsafe by such a call starts no further round of calls on
\* neighbours, so the rounds are never nested.
C31_RequeryDepthOne ==
    TurnDone => \A n \in 1..Len(hero[1].calls) : requery_depth(n) <= 1

\* the evaluations of utility in the history of the turn under the objective obj
utilities(obj) ==
    {i \in 1..Len(hero[1].calls) :
        hero[1].calls[i].op = "utility" /\ hero[1].calls[i].arg.obj = obj}

\* the target of the move a from the position p is the cell at index i, from 0, of plan
at_index(plan, a, p, i) == i + 1 \in 1..Len(plan) /\ plan[i + 1] = move_clone(p, a.dir)

\* C32: under TakeGold the utility of Grab is the maximum, of Exit the minimum, of a
\* Move to a cell not visited +1, of a Move to a visited cell at index i of the plan of
\* length L it is -(L-i-1), and of a Move to a visited cell that is not in the plan, or
\* without a plan, the minimum; and the evaluation leaves the plan as it was.
C32_UtilityTakeGold ==
    TurnDone =>
        \A n \in utilities("TakeGold") :
            LET e == hero[1].calls[n].arg
                visited == is_visited(hero[1].cache, move_clone(e.p, e.a.dir))
                in_plan == e.plan # None
                             /\ \E i \in 0..(Len(e.plan[1]) - 1) : at_index(e.plan[1], e.a, e.p, i)
            IN  /\ e.left = e.plan
                /\ e.a = Grab => e.value = i32_MAX
                /\ e.a = Exit => e.value = i32_MIN
                /\ (e.a.action = "Move" /\ ~visited) => e.value = 1
                /\ (e.a.action = "Move" /\ visited /\ in_plan) =>
                      \E i \in 0..(Len(e.plan[1]) - 1) :
                          /\ at_index(e.plan[1], e.a, e.p, i)
                          /\ e.value = 0 - (Len(e.plan[1]) - i - 1)
                /\ (e.a.action = "Move" /\ visited /\ ~in_plan) => e.value = i32_MIN

\* C32 as the code has it: under TakeGold the utility of Grab is the maximum, of Exit the
\* minimum, of a Move to a cell not visited +1, of a Move to a visited cell at index i of
\* the plan of length L it is -(L-i-1), of a Move to a visited cell that is not in the
\* plan the minimum plus one, and without a plan the minimum; the evaluation leaves the
\* plan as it was, except that a Move to the visited cell that is the last of the plan
\* clears the plan.
C32_UtilityTakeGoldCode ==
    TurnDone =>
        \A n \in utilities("TakeGold") :
            LET e == hero[1].calls[n].arg
                visited == is_visited(hero[1].cache, move_clone(e.p, e.a.dir))
                in_plan == e.plan # None
                             /\ \E i \in 0..(Len(e.plan[1]) - 1) : at_index(e.plan[1], e.a, e.p, i)
                last_of_plan == e.a.action = "Move" /\ visited /\ e.plan # None
                                  /\ at_index(e.plan[1], e.a, e.p, Len(e.plan[1]) - 1)
            IN  /\ e.left = IF last_of_plan THEN None ELSE e.plan
                /\ e.a = Grab => e.value = i32_MAX
                /\ e.a = Exit => e.value = i32_MIN
                /\ (e.a.action = "Move" /\ ~visited) => e.value = 1
                /\ (e.a.action = "Move" /\ visited /\ in_plan) =>
                      \E i \in 0..(Len(e.plan[1]) - 1) :
                          /\ at_index(e.plan[1], e.a, e.p, i)
                          /\ e.value = 0 - (Len(e.plan[1]) - i - 1)
                /\ (e.a.action = "Move" /\ visited /\ e.plan # None /\ ~in_plan) =>
                      e.value = i32_MIN + 1
                /\ (e.a.action = "Move" /\ visited /\ e.plan = None) => e.value = i32_MIN

\* a turn that evaluated, under TakeGold, Exit, a Move to a visited cell inside the plan
\* and before its end, and a Move to a visited cell outside the plan
C32_Witness ==
    /\ TurnDone
    /\ \E n \in utilities("TakeGold") : hero[1].calls[n].arg.a = Exit
    /\ \E n \in utilities("TakeGold") :
          /\ hero[1].calls[n].arg.a.action = "Move"
          /\ hero[1].calls[n].arg.value \in (0 - 9)..(0 - 1)
          /\ hero[1].calls[n].arg.left = hero[1].calls[n].arg.plan
    /\ \E n \in utilities("TakeGold") : hero[1].calls[n].arg.value = i32_MIN + 1

\* C33: under GoHome the utility of Exit and of Grab is the maximum, of a Move whose
\* target is in the plan minus the Manhattan distance of the target to (0,0), of a Move
\* whose target is not in the plan and of every Shoot the minimum; and the function is
\* evaluated only when a plan exists, so its assertion never fails.
C33_UtilityGoHome ==
    TurnDone =>
        /\ \A n \in utilities("GoHome") :
              LET e == hero[1].calls[n].arg
                  in_plan == \E i \in 0..(Len(e.plan[1]) - 1) : at_index(e.plan[1], e.a, e.p, i)
              IN  /\ e.plan # None
                  /\ e.left = e.plan
                  /\ e.a \in {Exit, Grab} => e.value = i32_MAX
                  /\ (e.a.action = "Move" /\ in_plan) =>
                        e.value = 0 - (move_clone(e.p, e.a.dir).x + move_clone(e.p, e.a.dir).y)
                  /\ (e.a.action = "Move" /\ ~in_plan) => e.value = i32_MIN
                  /\ \A k \in 1..Len(Directions) :
                        utility_go_home([hero[1] EXCEPT !.plan = e.plan],
                                        Shoot(Directions[k]), e.p).ret = i32_MIN
        /\ \A i \in 1..Len(hero[1].calls) :
              hero[1].calls[i].op = "panic" => hero[1].calls[i].arg # "assert!(self.plan.is_some())"

\* a turn that evaluated, under GoHome, Exit, a Move into the plan at a cell other than
\* (0,0) and a Move out of the plan
C33_Witness ==
    /\ TurnDone
    /\ \E n \in utilities("GoHome") : hero[1].calls[n].arg.a = Exit
    /\ \E n \in utilities("GoHome") :
          /\ hero[1].calls[n].arg.a.action = "Move"
          /\ hero[1].calls[n].arg.value \in (0 - 9)..(0 - 1)
    /\ \E n \in utilities("GoHome") :
          /\ hero[1].calls[n].arg.a.action = "Move"
          /\ hero[1].calls[n].arg.value = i32_MIN

\* the caches of the hero only grow in the step, and a Wumpus it recorded stays
caches_grow ==
    (hero # None /\ hero' # None) =>
        /\ hero[1].cache.safe \subseteq hero'[1].cache.safe
        /\ hero[1].cache._unsafe \subseteq hero'[1].cache._unsafe
        /\ hero[1].cache.visited \subseteq hero'[1].cache.visited
        /\ hero[1].cache.wumpus # None => hero'[1].cache.wumpus = hero[1].cache.wumpus

\* the step is a turn that the hero entered with a plan and that dropped it: it left
\* another plan or none, or it asked the planner, which is asked only without a plan
plan_reset ==
    /\ hero # None /\ hero' # None
    /\ hero[1].plan # None
    /\ \/ hero'[1].plan # hero[1].plan
       \/ \E i \in 1..Len(hero'[1].calls) :
             hero'[1].calls[i].op \in {"create_plan_gold", "create_plan_to_go_home"}

\* the plan the step started with is exhausted: it is empty, or the hero stands on its
\* last cell or has visited it, or the turn evaluated the move to its last cell
plan_exhausted ==
    \/ hero[1].plan[1] = <<>>
    \/ hero[1].plan[1][Len(hero[1].plan[1])] \in hero'[1].cache.visited
    \/ \E i \in 1..Len(hero'[1].calls) :
          /\ hero'[1].calls[i].op = "utility"
          /\ hero'[1].calls[i].arg.plan # None
          /\ hero'[1].calls[i].arg.left = None

\* the objective changes in the step: it differs after it, or glitter is perceived
objective_changes == hero'[1].obj # hero[1].obj \/ last'.arg[1].glitter

\* the turn of the step found no good action and called next_action again
not_good_actions ==
    Cardinality({i \in 1..Len(hero'[1].calls) : hero'[1].calls[i].op = "consistency"}) >= 2

\* C34: over any run the safe, unsafe and visited sets of the cache only grow and a
\* recorded Wumpus is never cleared; only the plan is reset, and it is reset when it is
\* exhausted or when the objective changes.
C34_CachesAdditive ==
    [][/\ caches_grow
       /\ plan_reset => (plan_exhausted \/ objective_changes)]_vars

\* C34 as the code has it: the plan is also reset when next_action finds no action of a
\* utility above the minimum plus one and plans again.
C34_CachesAdditiveCode ==
    [][/\ caches_grow
       /\ plan_reset => (plan_exhausted \/ objective_changes \/ not_good_actions)]_vars

\* a turn of a hero that has recorded the Wumpus and unsafe cells, which found every
\* move valued the minimum plus one under a plan, asked for a new plan and called
\* next_action again
C34_Witness ==
    /\ TurnDone
    /\ hero[1].cache.wumpus # None
    /\ Cardinality(hero[1].cache._unsafe) >= 2
    /\ \E i, j, k \in 1..Len(hero[1].calls) :
          /\ i < j /\ j < k
          /\ hero[1].calls[i].op = "utility"
          /\ hero[1].calls[i].arg.plan # None
          /\ hero[1].calls[i].arg.value = i32_MIN + 1
          /\ hero[1].calls[j].op = "create_plan_gold"
          /\ hero[1].calls[k].op = "consistency"

\* the positions that the calls of the history computed with move_clone: the targets of
\* the moves whose utility was evaluated, the four neighbours that safe_neighbourhood
\* looked up before create_plan_gold was called, and the cells that the second loop of
\* is_safe printed around an unsafe cell, for the directions possible at the origin
computed_positions(h, origin) ==
    UNION {LET call == h.calls[i]
           IN  CASE call.op = "utility" /\ call.arg.a.action = "Move" ->
                       {move_clone(call.arg.p, call.arg.a.dir)}
                 [] call.op = "create_plan_gold" ->
                       {move_clone(call.arg, Directions[d]) : d \in DOMAIN Directions}
                 [] call.op = "requery" ->
                       {move_clone(call.arg, Directions[d]) :
                           d \in {e \in DOMAIN Directions :
                                     possible_move(origin, Directions[e], h.size_map)}}
                 [] OTHER -> {} :
           i \in 1..Len(h.calls)}

\* C35: every position the hero computes or looks up is on the board, 0 <= x < N and
\* 0 <= y < N, and move_clone is applied only in a direction with an in-bounds
\* neighbour, so that no subtraction of a coordinate goes below 0.
C35_CoordinatesOnBoard ==
    TurnDone =>
        /\ \A i \in 1..Len(hero[1].calls) :
              hero[1].calls[i].op = "panic" =>
                  hero[1].calls[i].arg # "attempt to subtract with overflow"
        /\ hero[1].cache.safe \cup hero[1].cache._unsafe \cup hero[1].cache.visited
               \subseteq board(hero[1].size_map)
        /\ computed_positions(hero[1], last.arg[1].position) \subseteq board(hero[1].size_map)

\* C36: in every turn the perceived position is in the safe cache when the assertion
\* of next_action is reached, so the assertion never fails: the history of no turn ends
\* with its failure, and the position of every turn that got past it is in the safe
\* cache.
C36_CurrentCellSafe ==
    TurnDone =>
        /\ \A i \in 1..Len(hero[1].calls) :
              hero[1].calls[i].op = "panic" =>
                  hero[1].calls[i].arg # "assert!(self.cache.is_safe(&p.position))"
        /\ last.arg[1].position \in hero[1].cache.visited =>
              Cache_is_safe(hero[1].cache, last.arg[1].position)

\* a later turn at a cell away from (0,0), which the hero proved safe before it moved
\* there, that got past the assertion and returned an action
C36_Witness ==
    /\ TurnDone
    /\ status = "running"
    /\ hero[1].t >= 3
    /\ distance_to_zero(last.arg[1].position) >= 2
    /\ last.arg[1].position \in hero[1].cache.visited
    /\ Cache_is_safe(hero[1].cache, last.arg[1].position)

\* C37: in every state of the hero no position is both in the safe set and in the
\* unsafe set of the cache, and a recorded Wumpus is a member of the unsafe set.
C37_SafeUnsafeDisjoint ==
    hero # None =>
        /\ hero[1].cache.safe \cap hero[1].cache._unsafe = {}
        /\ hero[1].cache.wumpus # None => hero[1].cache.wumpus[1] \in hero[1].cache._unsafe

\* a hero that has recorded the Wumpus and another unsafe cell, and proved cells safe
C37_Witness ==
    /\ TurnDone
    /\ hero[1].cache.wumpus # None
    /\ Cardinality(hero[1].cache._unsafe) >= 2
    /\ Cardinality(hero[1].cache.safe) >= 4

\* the calls of the turn of the step, and how many of them have the operation op
calls_after == hero'[1].calls

count_after(op) == Cardinality({i \in 1..Len(calls_after) : calls_after[i].op = op})

\* the depth of the rounds of is_safe after the first n calls of the turn of the step
depth_after(n) ==
    Cardinality({i \in 1..n : calls_after[i].op = "requery"})
        - Cardinality({i \in 1..n : calls_after[i].op = "requery_end"})

\* the cells of the board that the hero has in neither cache before the step
not_cached == board(hero[1].size_map) \ (hero[1].cache.safe \cup hero[1].cache._unsafe)

\* C38: is_safe terminates.  In every turn the calls of is_safe return after finitely
\* many asks: is_safe asks at most three questions, next_action calls it at most four
\* times each time it is entered, and a round calls it at most eight times; a round is
\* started only from a cell that the turn has just added to the unsafe cache, each cell
\* starts at most one round, and the rounds nest no deeper than the number of cells
\* that were in neither cache.
C38_IsSafeTerminates ==
    [][(hero # None /\ hero' # None /\ hero' # hero) =>
          /\ \A i \in 1..Len(calls_after) :
                calls_after[i].op = "requery" =>
                    /\ calls_after[i].arg \in hero'[1].cache._unsafe \ hero[1].cache._unsafe
                    /\ calls_after[i].arg \in not_cached
                    /\ \A j \in 1..(i - 1) :
                          calls_after[j].op = "requery" => calls_after[j].arg # calls_after[i].arg
          /\ \A n \in 1..Len(calls_after) : depth_after(n) <= Cardinality(not_cached)
          /\ count_after("ask")
                 <= 3 * (4 * count_after("consistency") + 8 * count_after("requery"))]_vars

\* a turn in which is_safe started a round inside another round and every round ended
C38_Witness ==
    /\ TurnDone
    /\ status = "running"
    /\ \E n \in 1..Len(hero[1].calls) : requery_depth(n) = 2
    /\ requery_depth(Len(hero[1].calls)) = 0

\* C39: on the name table of encode() and the model of parse_picosat_model for the same
\* encoder, decode_model returns one pair for every interned variable and no other
\* pair, and the pair of the variable with id i holds the model value of id i, which
\* is unknown when the output gives no model.
C39_ModelDecoding ==
    last.op = "decode_model" =>
        LET pairs == last.ret[1].pairs
            model == last.ret[1].model
        IN  /\ Len(pairs) = Cardinality(DOMAIN kb.map)
            /\ \A x \in DOMAIN kb.map :
                  \E k \in 1..Len(pairs) :
                      /\ pairs[k][1] = x
                      /\ pairs[k][2] = IF kb.map[x] + 1 <= Len(model)
                                       THEN model[kb.map[x] + 1]
                                       ELSE None

\* the stored clause of Literal<usize> that the clause of Literal<Var> is stored as
stored_as(clause) == [j \in 1..Len(clause) |-> literal_map(clause[j], kb.map)]

\* C40: for every cell c and every in-bounds 4-neighbour c' of c, the init_kb of main.rs
\* emits the clause (not Wumpus(c) or Stench(c')): the knowledge base it returns stores
\* that clause, as the one of kb.rs does, and with the clause (not Stench(c) or the
\* Wumpus in a neighbour of c) Stench(c) holds iff a neighbour of c has the Wumpus.
C40_MainStenchAxioms ==
    (init_kb_returned /\ "builder" \in DOMAIN world[1]) =>
        \A c \in board(world[1].size) :
            \A k \in 1..Len(neighbours(c, world[1].size)) :
                LET wumpus_implica_puzza ==
                        <<Neg(Wumpus(c)), Pos(Stench(neighbours(c, world[1].size)[k]))>>
                IN  /\ Wumpus(c) \in DOMAIN kb.map
                    /\ Stench(neighbours(c, world[1].size)[k]) \in DOMAIN kb.map
                    /\ \E i \in 1..Len(kb.clauses) : kb.clauses[i] = stored_as(wumpus_implica_puzza)

====
